---- MODULE Spec2Model ----
(***************************************************************************)
(* Verification model of the vacuum media pipeline: the episode cache      *)
(* (EpisodeCache), the paginated history reconciliation                    *)
(* (TautulliClient.getShowEpisodeHistory), the per-show episode crawl      *)
(* (EpisodeFetcher.fetchEpisodesForShow), the library sync loop            *)
(* (syncMediaUnits), the aggregation of sources into units                 *)
(* (aggregateMediaUnits) and the scoring of units (scoreMediaItems).       *)
(*                                                                         *)
(* JavaScript values are modelled as tagged records so that null, NaN,     *)
(* strings and numbers stay distinct: [t |-> tag, v |-> integer].          *)
(***************************************************************************)
EXTENDS Integers, Sequences, FiniteSets, TLC

VARIABLES
    store,      \* episode_cache table: show_key -> row (a key has at most one row)
    now,        \* Date.now(), in days
    capturedAt, \* history variable: time of the last save of each stored key
    lastOp,     \* history variable: the last EpisodeCache call and its outcome
    hPc,        \* getShowEpisodeHistory: "idle", "request" (awaiting a page), "done"
    hStart,     \* getShowEpisodeHistory: start
    hTotal,     \* getShowEpisodeHistory: expectedTotal
    hStats,     \* getShowEpisodeHistory: stats, rating key -> {playCount, lastPlayed}
    hLog,       \* history variable: what the pages fetched so far held
    sync,       \* syncMediaUnits: position, loop indices, counters, outcome
    fetch,      \* fetchEpisodesForShow: locals of the call in progress
    memo,       \* TautulliClient.metadataFileCache
    sLog,       \* history variable: per run, the shows whose history was asked / failed
    sources,    \* aggregateMediaUnits: the argument
    units,      \* aggregateMediaUnits: the list returned
    aggPc,      \* aggregateMediaUnits: "input" before the call, "done" after it
    items,      \* scoreMediaItems: the units handed over
    options,    \* scoreMediaItems: the tunables in force
    scored,     \* scoreMediaItems: the list returned
    scorePc,    \* scoreMediaItems: "input" before the call, "done" after it
    mapItem,    \* mapMediaItemToSource: the item of the service
    mapStat,    \* mapMediaItemToSource: what safeStat gave for its file
    mapped,     \* mapMediaItemToSource: the source returned
    mapPc,      \* mapMediaItemToSource: "input" before the call, "done" after it
    purge       \* purgeMediaUnits: position, configuration, locals, and the
                \* removals and unmonitor requests made so far

cacheVars == <<store, now, capturedAt, lastOp>>
histVars == <<hPc, hStart, hTotal, hStats, hLog>>
syncVars == <<sync, fetch, memo, sLog>>
aggVars == <<sources, units, aggPc>>
scoreVars == <<items, options, scored, scorePc>>
mapVars == <<mapItem, mapStat, mapped, mapPc>>
sideVars == <<mapVars, purge>>
pureVars == <<aggVars, scoreVars, sideVars>>
vars == <<store, now, capturedAt, lastOp, hPc, hStart, hTotal, hStats, hLog,
          sync, fetch, memo, sLog, sources, units, aggPc,
          items, options, scored, scorePc, mapItem, mapStat, mapped, mapPc,
          purge>>

----------------------------------------------------------------------------
(* JavaScript values *)

Num(n) == [t |-> "num", v |-> n]
NullV == [t |-> "null", v |-> 0]
NaNV == [t |-> "nan", v |-> 0]

IsNullish(x) == x.t = "null"

\* a ?? b
Coalesce(a, b) == IF IsNullish(a) THEN b ELSE a

----------------------------------------------------------------------------
(* Bounds and program constants *)

\* Date.now() runs from 0 to MaxTime days
MaxTime == 8

\* CACHE_TTL_MS, 7 days, in days
CACHE_TTL == 7

Keys == {"s1", "s2"}
Tokens == {1000, 2000}

\* fetched_at of a row whose stored value is not a finite number
BadTime == -1

----------------------------------------------------------------------------
(* EpisodeCache *)

\* CachedEpisode values: a plain episode, and one whose added_at is NaN
\* (normalizeChildItem maps a non-numeric added_at string to Number(...) = NaN)
NullKey == "<null>"

\* a file path: the library root it lies under and the file name
Path(root, name) == [root |-> root, name |-> name]
NoPath == Path("", "")

Episode(rk, prk, file, added, played, plays) ==
    [rating_key |-> rk, media_type |-> "episode", parent_rating_key |-> prk,
     file |-> file, added_at |-> added, last_played |-> played,
     play_count |-> plays]

EpA == Episode("e1", "a1", Path("lib", "e1"), Num(5), NullV, Num(0))
EpB == Episode("e2", "a1", NoPath, NullV, Num(20), Num(3))
EpN == Episode("e3", "a2", NoPath, NaNV, NullV, NullV)

EpisodeLists == {<<EpA, EpN>>, <<EpB>>}

\* JSON.stringify of a number: NaN and Infinity are written as null
JsonNumber(x) == IF x.t = "nan" THEN NullV ELSE x

StringifyEpisode(e) ==
    [e EXCEPT !.added_at = JsonNumber(@),
              !.last_played = JsonNumber(@),
              !.play_count = JsonNumber(@)]

\* JSON.stringify(episodes): the payload text, as the JSON value it denotes
Stringify(episodes) ==
    [kind |-> "array",
     items |-> [i \in 1..Len(episodes) |-> StringifyEpisode(episodes[i])]]

\* payload texts that are not the JSON of an episode list
GarbagePayload == [kind |-> "garbage", items |-> <<>>]   \* not JSON at all
ObjectPayload == [kind |-> "object", items |-> <<>>]     \* JSON, but no array
BlobPayload == [kind |-> "blob", items |-> <<>>]         \* not a string

CorruptPayloads == {GarbagePayload, ObjectPayload, BlobPayload}

\* what load hands back
Absent == [kind |-> "null", items |-> <<>>]

\* Number(showUpdatedAt) || 0
NormalizeToken(t) == IF t = 0 THEN 0 ELSE t

\* mutant: the DELETE is not issued
CacheDelete_Skipped(s, k) == s

\* DELETE FROM episode_cache WHERE show_key = ?
CacheDelete(s, k) == [x \in DOMAIN s \ {k} |-> s[x]]

\* row.show_updated_at !== showUpdatedAt
TokenDiffers(rowToken, token) == rowToken # token

\* mutant: the age of the row is not checked
Expired_Never(t, fetchedAt) == FALSE

\* Date.now() - fetchedAt > CACHE_TTL_MS
Expired(t, fetchedAt) == t - fetchedAt > CACHE_TTL

\* JSON.parse(row.payload) throws
ParseThrows(payload) == payload.kind = "garbage"

\* JSON.parse(row.payload)
Parse(payload) == [kind |-> payload.kind, items |-> payload.items]

\* EpisodeCache.load: the value returned and the store afterwards
CacheLoad(s, t, k, token) ==
    IF k \notin DOMAIN s
    THEN [result |-> Absent, store |-> s]
    ELSE IF TokenDiffers(s[k].show_updated_at, token)
    THEN [result |-> Absent, store |-> CacheDelete(s, k)]
    ELSE IF s[k].fetched_at = BadTime
    THEN [result |-> Absent, store |-> CacheDelete(s, k)]
    ELSE IF Expired(t, s[k].fetched_at)
    THEN [result |-> Absent, store |-> CacheDelete(s, k)]
    ELSE IF s[k].payload.kind = "blob"
    THEN [result |-> Absent, store |-> CacheDelete(s, k)]
    ELSE IF ParseThrows(s[k].payload)
    THEN [result |-> Absent, store |-> CacheDelete(s, k)]
    ELSE [result |-> Parse(s[k].payload), store |-> s]

\* mutant: save writes nothing
CacheSave_Dropped(s, t, k, token, episodes) == s

\* mutant: save rewrites the table with the one row
CacheSave_Only(s, t, k, token, episodes) ==
    [x \in {k} |-> [show_updated_at |-> NormalizeToken(token),
                    fetched_at |-> t,
                    payload |-> Stringify(episodes)]]

\* EpisodeCache.save: INSERT ... ON CONFLICT(show_key) DO UPDATE
CacheSave(s, t, k, token, episodes) ==
    [x \in DOMAIN s \cup {k} |->
        IF x = k
        THEN [show_updated_at |-> NormalizeToken(token),
              fetched_at |-> t,
              payload |-> Stringify(episodes)]
        ELSE s[x]]

\* EpisodeCache.clear: DELETE FROM episode_cache
CacheClear(s) == [x \in {} |-> s[x]]

----------------------------------------------------------------------------
(* History variables of the cache specification *)

NoOp ==
    [op |-> "none", key |-> "", token |-> 0, at |-> 0, arg |-> Absent,
     result |-> Absent, hadRow |-> FALSE, rowToken |-> 0,
     rowKind |-> "", rowTimeOk |-> FALSE, age |-> 0, prev |-> "", prevArg |-> Absent]

\* how the call before a load relates to it
PrevRelation(last, k, token, t) ==
    IF last.op = "save" /\ last.key = k /\ last.token = token /\ last.at = t
        THEN "save_same"
    ELSE IF last.op = "save" /\ last.key = k /\ last.token # token
        THEN "save_other"
    ELSE IF last.op = "load" /\ last.key = k /\ last.prev = "save_other"
            /\ last.rowToken = token
        THEN "purged"
    ELSE "other"

KeepCaptured(s2, k, t) ==
    [x \in DOMAIN s2 |-> IF x = k THEN t ELSE capturedAt[x]]

----------------------------------------------------------------------------
(* TautulliClient.getShowEpisodeHistory *)

\* HISTORY_PAGE_SIZE (500 in the source), scaled down
HISTORY_PAGE_SIZE == 2

\* a page request is answered at most MaxPages times per call: a server that
\* has not stopped by then answers the last request with a final page
MaxPages == 3

Str(n) == [t |-> "str", v |-> n]       \* the decimal string of n
BadStr == [t |-> "bad", v |-> 0]       \* a string that is no number
EmptyStr == [t |-> "empty", v |-> 0]   \* ""

\* Number(value)
ToNumber(x) ==
    CASE x.t = "num" -> x
      [] x.t = "str" -> Num(x.v)
      [] x.t = "null" -> Num(0)
      [] x.t = "empty" -> Num(0)
      [] OTHER -> NaNV

\* normalizeHistoryCount (counts are whole numbers, Math.floor keeps them)
NormalizeHistoryCount(value) ==
    LET count == ToNumber(value)
    IN  IF count.t = "nan" \/ count.v <= 0 THEN 1 ELSE count.v

\* toNullableNumber
ToNullableNumber(value) ==
    IF value.t \in {"null", "empty"} THEN NullV
    ELSE IF ToNumber(value).t = "nan" THEN NullV
    ELSE ToNumber(value)

Row(rk, prk, gprk, count, stopped, date) ==
    [rating_key |-> rk, parent_rating_key |-> prk,
     grandparent_rating_key |-> gprk, group_count |-> count,
     stopped |-> stopped, date |-> date]

\* history rows the server may send; timestamps are positive epoch seconds
HistoryRows ==
    { Row("e1", "p1", "s1", Num(3), Num(20), Num(19)),
      Row("e1", "p1", "s1", Num(2), Num(10), Num(9)),
      Row("e1", "p1", "s1", NullV, NullV, Num(30)),
      Row("e2", "p1", "s1", BadStr, EmptyStr, Num(30)),
      Row("e2", "p1", "s1", Num(0), Num(10), NullV),
      Row(NullKey, "p1", "s1", Str(2), Str(10), NullV),
      Row("", "p1", "s1", Num(1), Num(20), NullV) }

\* the pages a request may return: up to HISTORY_PAGE_SIZE rows
RECURSIVE SeqsUpTo(_, _)
SeqsUpTo(S, n) ==
    IF n = 0 THEN {<<>>}
    ELSE LET shorter == SeqsUpTo(S, n - 1)
         IN  shorter \cup {Append(q, x) : q \in {r \in shorter : Len(r) = n - 1}, x \in S}

HistoryPages == SeqsUpTo(HistoryRows, HISTORY_PAGE_SIZE)

\* recordsFiltered of a response: absent, or a number
ReportedTotals == {NullV} \cup {Num(n) : n \in {0, HISTORY_PAGE_SIZE, 2 * HISTORY_PAGE_SIZE + 1}}

\* entry.rating_key ?? entry.parent_rating_key ?? entry.grandparent_rating_key
EntryKey(entry) ==
    IF entry.rating_key # NullKey THEN entry.rating_key
    ELSE IF entry.parent_rating_key # NullKey THEN entry.parent_rating_key
    ELSE entry.grandparent_rating_key

\* if (!ratingKey) continue
EntrySkipped(entry) == EntryKey(entry) \in {NullKey, ""}

\* toNullableNumber(entry.stopped ?? entry.date)
EntryStopped(entry) == ToNullableNumber(Coalesce(entry.stopped, entry.date))

\* mutant: a later row of a key replaces its count
MergeCount_Replace(old, plays) == plays

\* existing.playCount += plays
MergeCount(old, plays) == old + plays

\* if (stopped && (!existing.lastPlayed || stopped > existing.lastPlayed))
MergeLastPlayed(old, stopped) ==
    IF stopped.t = "num" /\ stopped.v # 0
       /\ (old.t = "null" \/ old.v = 0 \/ stopped.v > old.v)
    THEN stopped ELSE old

\* the body of the loop over the entries of a page, for one entry
FoldEntry(stats, entry) ==
    IF EntrySkipped(entry) THEN stats
    ELSE LET key == EntryKey(entry)
             plays == NormalizeHistoryCount(entry.group_count)
             stopped == EntryStopped(entry)
         IN  IF key \in DOMAIN stats
             THEN [stats EXCEPT ![key] =
                     [playCount |-> MergeCount(stats[key].playCount, plays),
                      lastPlayed |-> MergeLastPlayed(stats[key].lastPlayed, stopped)]]
             ELSE [x \in DOMAIN stats \cup {key} |->
                     IF x = key
                     THEN [playCount |-> plays, lastPlayed |-> stopped]
                     ELSE stats[x]]

RECURSIVE FoldEntries(_, _)
FoldEntries(stats, entries) ==
    IF entries = <<>> THEN stats
    ELSE FoldEntries(FoldEntry(stats, Head(entries)), Tail(entries))

EmptyStats == [x \in {} |-> 0]

\* mutant: a short page does not end the paging
ShortPage_Ignored(n) == FALSE

\* entries.length < HISTORY_PAGE_SIZE
ShortPage(n) == n < HISTORY_PAGE_SIZE

\* expectedTotal !== null && start >= expectedTotal
TotalReached(start, total) == total.t = "num" /\ start >= total.v

\* typeof page.recordsFiltered === "number" ? page.recordsFiltered : expectedTotal
NextTotal(total, reported) == IF reported.t = "num" THEN reported ELSE total

(* history variable hLog: per rating key the sum of the counts and the     *)
(* latest timestamp of the rows seen, taken row by row as the rows state   *)
(* them; the keys with rows on more than one page; how the call went       *)
NoLog ==
    [requests |-> 0, pages |-> 0, failed |-> FALSE, stopSeen |-> FALSE,
     counts |-> EmptyStats, latest |-> EmptyStats, multi |-> {}, rows |-> {}]

\* the count a row stands for: its group count, 1 when that is no positive number
RowCount(entry) ==
    IF entry.group_count.t \in {"num", "str"} /\ entry.group_count.v > 0
    THEN entry.group_count.v ELSE 1

\* the timestamp of a row, 0 when it has none
RowTime(entry) ==
    LET raw == IF entry.stopped.t # "null" THEN entry.stopped ELSE entry.date
    IN  IF raw.t \in {"num", "str"} THEN raw.v ELSE 0

RECURSIVE LogRows(_, _)
LogRows(log, entries) ==
    IF entries = <<>> THEN log
    ELSE LET e == Head(entries)
             k == EntryKey(e)
             seen == k \in DOMAIN log.counts
             c == (IF seen THEN log.counts[k] ELSE 0) + RowCount(e)
             m == IF seen /\ log.latest[k] > RowTime(e) THEN log.latest[k]
                  ELSE RowTime(e)
             next == IF EntrySkipped(e) THEN log
                     ELSE [log EXCEPT
                            !.counts = [x \in DOMAIN log.counts \cup {k} |->
                                          IF x = k THEN c ELSE log.counts[x]],
                            !.latest = [x \in DOMAIN log.latest \cup {k} |->
                                          IF x = k THEN m ELSE log.latest[x]]]
         IN  LogRows(next, Tail(entries))

HistIdle ==
    /\ hPc = "idle"
    /\ hStart = 0
    /\ hTotal = NullV
    /\ hStats = EmptyStats
    /\ hLog = NoLog

\* getShowEpisodeHistory is entered: stats = new Map(), start = 0
HistBegin ==
    /\ hPc' = "request"
    /\ hStart' = 0
    /\ hTotal' = NullV
    /\ hStats' = EmptyStats
    /\ hLog' = NoLog

\* an answer after which no page is left: fewer rows than the page size, or
\* the offset past it reaches the total the server reported
FinalAnswer(entries, total, start) ==
    \/ Len(entries) < HISTORY_PAGE_SIZE
    \/ total.t = "num" /\ start + Len(entries) >= total.v

PageKeys(entries) ==
    {EntryKey(entries[i]) : i \in {j \in 1..Len(entries) : ~EntrySkipped(entries[j])}}

\* mutant: a failed request discards what the earlier pages gave
HistFailureStats_Dropped(stats) == EmptyStats

\* catch { ...; break } then return stats: the stats gathered so far
HistFailureStats(stats) == stats

\* await this.request("get_history", ...) throws: break
HistPageFails ==
    /\ hPc = "request"
    /\ hLog.requests < MaxPages
    /\ hPc' = "done"
    /\ hStats' = HistFailureStats(hStats)
    /\ hLog' = [hLog EXCEPT !.requests = @ + 1, !.failed = TRUE, !.stopSeen = TRUE]
    /\ UNCHANGED <<hStart, hTotal>>

\* await this.request("get_history", ...) returns a page: one turn of the loop
HistPageArrives(entries, reported) ==
    /\ hPc = "request"
    /\ hLog.requests < MaxPages
    /\ hLog.requests = MaxPages - 1 =>
          FinalAnswer(entries, NextTotal(hTotal, reported), hStart)
    /\ LET total == NextTotal(hTotal, reported)
           start == hStart + Len(entries)
           stop == \/ Len(entries) = 0
                   \/ ShortPage(Len(entries))
                   \/ TotalReached(start, total)
       IN  /\ hTotal' = total
           /\ hStats' = FoldEntries(hStats, entries)
           /\ hStart' = start
           /\ hPc' = IF stop THEN "done" ELSE "request"
           /\ hLog' = [LogRows(hLog, entries) EXCEPT
                         !.requests = @ + 1,
                         !.pages = @ + 1,
                         !.multi = @ \cup (PageKeys(entries) \cap DOMAIN hLog.counts),
                         !.rows = @ \cup {[rating_key |-> entries[i].rating_key,
                                           parent_rating_key |-> entries[i].parent_rating_key,
                                           grandparent_rating_key |->
                                               entries[i].grandparent_rating_key] :
                                          i \in 1..Len(entries)},
                         !.stopSeen = FinalAnswer(entries, total, hStart)]

HistPage ==
    \/ HistPageFails
    \/ \E entries \in HistoryPages, reported \in ReportedTotals :
          HistPageArrives(entries, reported)

----------------------------------------------------------------------------
(* The upstream service as syncMediaUnits sees it: two libraries, two shows *)
(* and a movie. A request fails or gives what is listed here.              *)

\* runs of syncMediaUnits in one behaviour; the cache file lasts across them
MaxRuns == 2

\* days between the start of two runs
RunGaps == {CACHE_TTL, CACHE_TTL + 1}

\* config.libraryPaths
LibraryRoots == {"lib"}

Libraries ==
    << [section_id |-> 1, section_type |-> "show", items |-> <<"s1", "s2">>],
       [section_id |-> 2, section_type |-> "movie", items |-> <<"c1", "m1">>] >>

\* the items of get_library_media_info
LibraryItem(k) ==
    CASE k = "s1" -> [rating_key |-> "s1", media_type |-> "show",
                      parent_rating_key |-> NullKey, file |-> NoPath,
                      added_at |-> Num(1), updated_at |-> Num(2),
                      last_played |-> NullV, play_count |-> NullV]
      [] k = "s2" -> [rating_key |-> "s2", media_type |-> "show",
                      parent_rating_key |-> NullKey, file |-> NoPath,
                      added_at |-> Num(1), updated_at |-> NullV,
                      last_played |-> NullV, play_count |-> NullV]
      [] k = "c1" -> [rating_key |-> "c1", media_type |-> "clip",
                      parent_rating_key |-> NullKey, file |-> Path("lib", "c1"),
                      added_at |-> Num(1), updated_at |-> NullV,
                      last_played |-> NullV, play_count |-> Num(0)]
      [] OTHER    -> [rating_key |-> k, media_type |-> "movie",
                      parent_rating_key |-> NullKey, file |-> Path("lib", k),
                      added_at |-> Num(1), updated_at |-> NullV,
                      last_played |-> NullV, play_count |-> Num(0)]

\* the updated_at the service reports for the show s1: it may change from one
\* run to the next
ShowUpdates == {Num(2), Num(3)}

\* the item of get_library_media_info in a run in which s1 was last updated
\* at upd
UpstreamItem(k, upd) ==
    IF k = "s1" THEN [LibraryItem(k) EXCEPT !.updated_at = upd] ELSE LibraryItem(k)

\* get_children_metadata of a show: its seasons
SeasonsOf(show) == IF show = "s1" THEN <<"a1", "a2">> ELSE <<"b1">>

\* get_children_metadata of a season: its episodes, after normalizeChildItem
\* (e3 carries a non-numeric added_at string, which Number() turns into NaN)
EpisodesOf(season) ==
    CASE season = "a1" ->
            << Episode("e1", "a1", NoPath, Num(5), NullV, NullV),
               Episode("e2", "a1", Path("out", "e2"), Num(5), Num(9), Num(2)) >>
      [] season = "a2" ->
            << Episode("e3", "a2", NoPath, NaNV, NullV, NullV) >>
      [] OTHER ->
            << Episode("e4", "b1", NoPath, NullV, NullV, Num(1)) >>

\* get_metadata of an item: the file path it reports, if any
MetadataPath(k) ==
    CASE k = "e1" -> Path("lib", "e1")
      [] k = "e3" -> Path("lib", "e3")
      [] OTHER -> NoPath

\* the history pages the service sends during a sync
SyncHistoryPages ==
    { << Row("e1", "a1", "s1", Num(3), Num(20), NullV) >>,
      << Row("e1", "a1", "s1", Num(3), Num(20), NullV),
         Row("e1", "a1", "s1", Num(2), Num(10), NullV) >>,
      << Row("e4", "b1", "s2", BadStr, Num(30), NullV),
         Row("e2", "a1", "s1", Num(1), EmptyStr, NullV) >> }

\* recordsFiltered is not reported during a sync
SyncReportedTotals == {NullV}

----------------------------------------------------------------------------
(* EpisodeFetcher and TautulliClient.getMediaItemFilePath *)

\* mutant: the added timestamp comes before the updated one
GetUpdateToken_AddedFirst(item, t) ==
    IF IsNullish(item.updated_at) /\ IsNullish(item.added_at) THEN t
    ELSE LET ts == ToNumber(Coalesce(item.added_at, item.updated_at))
         IN  IF ts.t = "nan" THEN t ELSE ts.v * 1000

\* EpisodeFetcher.getUpdateToken, Date.now() being t
GetUpdateToken(item, t) ==
    IF IsNullish(item.updated_at) /\ IsNullish(item.added_at) THEN t
    ELSE LET ts == ToNumber(Coalesce(item.updated_at, item.added_at))
         IN  IF ts.t = "nan" THEN t ELSE ts.v * 1000

\* normalizePlayCount
NormalizePlayCount(value) ==
    IF IsNullish(value) THEN NullV
    ELSE IF ToNumber(value).t = "nan" THEN NullV
    ELSE ToNumber(value)

\* mutant: the memo is never consulted
GetMediaItemFilePath_NoMemo(m, k, outcome) ==
    LET found == IF outcome = "fail" THEN NoPath ELSE MetadataPath(k)
    IN  [path |-> found,
         memo |-> [x \in DOMAIN m \cup {k} |-> IF x = k THEN found ELSE m[x]],
         threw |-> outcome = "fail",
         requested |-> TRUE]

\* TautulliClient.getMediaItemFilePath: the memo answers when it has the key;
\* else one get_metadata request, whose outcome ("fail" or "ok") is memoised
GetMediaItemFilePath(m, k, outcome) ==
    IF k \in DOMAIN m
    THEN [path |-> m[k], memo |-> m, threw |-> FALSE, requested |-> FALSE]
    ELSE LET found == IF outcome = "fail" THEN NoPath ELSE MetadataPath(k)
         IN  [path |-> found,
              memo |-> [x \in DOMAIN m \cup {k} |-> IF x = k THEN found ELSE m[x]],
              threw |-> outcome = "fail",
              requested |-> TRUE]

\* the CachedEpisode fetchEpisodesForShow builds from a listed episode
BuildCachedEpisode(episode, filePath) ==
    [episode EXCEPT
        !.file = IF filePath # NoPath THEN filePath ELSE episode.file,
        !.play_count = NormalizePlayCount(episode.play_count)]

\* mutant: the history overwrites nothing
ApplyStat_Ignored(episode, stats) == episode

\* populatePlayStats, for one episode
ApplyStat(episode, stats) ==
    IF episode.rating_key \in DOMAIN stats
    THEN LET st == stats[episode.rating_key]
         IN  [episode EXCEPT
                !.play_count = Num(st.playCount),
                !.last_played =
                    IF st.lastPlayed.t = "num" /\ st.lastPlayed.v # 0
                    THEN st.lastPlayed ELSE @]
    ELSE [episode EXCEPT
            !.play_count = Coalesce(NormalizePlayCount(@), Num(0))]

\* populatePlayStats, the loop over the episodes
ApplyStats(episodes, stats) ==
    [i \in 1..Len(episodes) |-> ApplyStat(episodes[i], stats)]

\* isPathAllowed
IsPathAllowed(p) == LibraryRoots = {} \/ p.root \in LibraryRoots

NoFetch ==
    [show |-> "", token |-> 0, hit |-> FALSE, cached |-> Absent,
     rowValid |-> FALSE, listed |-> <<>>, seasons |-> <<>>, pending |-> <<>>,
     episodes |-> <<>>, trace |-> <<>>, saved |-> Absent, returned |-> <<>>,
     updated |-> NullV, earlier |-> <<>>]

NoOut ==
    [processed |-> 0, imported |-> 0, skippedUnsupported |-> 0,
     skippedMissingFile |-> 0, skippedDueToPath |-> 0]

NoSync ==
    [pc |-> "idle", run |-> 0, status |-> "none", cause |-> "", lib |-> 0,
     item |-> 0, queue |-> <<>>, out |-> NoOut, configured |-> TRUE,
     cacheOpen |-> FALSE, upd |-> Num(2)]

NoSyncLog ==
    [asked |-> {}, failed |-> {}, fetched |-> {}, attempts |-> {}, lost |-> {},
     repeated |-> FALSE, handled |-> {}, tokens |-> <<>>]

\* a request of the run: a listing, a path lookup or a history page
Request(e, k, n) == [e |-> e, k |-> k, n |-> n]

\* history variable: the request q goes out, and fails or not
Attempt(log, q, failed) ==
    [log EXCEPT !.attempts = @ \cup {q},
                !.lost = IF failed THEN @ \cup {q} ELSE @,
                !.repeated = @ \/ q \in log.attempts]

SyncIdle ==
    /\ sync = NoSync
    /\ fetch = NoFetch
    /\ memo = [x \in {} |-> NoPath]
    /\ sLog = NoSyncLog

Event(e, k) == [e |-> e, k |-> k]

\* aggregateMediaUnits is not called
AggIdle ==
    /\ sources = <<>>
    /\ units = <<>>
    /\ aggPc = "idle"

\* scoreMediaItems is not called
ScoreIdle ==
    /\ items = <<>>
    /\ options = [x \in {} |-> 0]
    /\ scored = <<>>
    /\ scorePc = "idle"

\* mapMediaItemToSource is not called
MapIdle ==
    /\ mapItem = [rating_key |-> "", added_at |-> NullV, play_count |-> NullV]
    /\ mapStat = [size |-> 0, birthtimeMs |-> 0]
    /\ mapped = [id |-> "", sizeBytes |-> 0, addedAt |-> NullV, playCount |-> 0]
    /\ mapPc = "idle"

\* purgeMediaUnits is not called
NoPurge ==
    [pc |-> "idle", tautulli |-> FALSE, sonarr |-> FALSE, radarr |-> FALSE,
     roots |-> {}, units |-> <<>>, selected |-> {}, candidates |-> <<>>,
     sonarrTargets |-> <<>>, radarrTargets |-> <<>>, typedPhrase |-> <<>>,
     i |-> 0, deleted |-> 0, failures |-> <<>>, log |-> <<>>, outcome |-> ""]

PurgeIdle == purge = NoPurge

SideIdle == MapIdle /\ PurgeIdle

PureIdle == AggIdle /\ ScoreIdle /\ SideIdle

----------------------------------------------------------------------------
(* syncMediaUnits and fetchEpisodesForShow, one action per awaited request  *)
(* or loop step                                                             *)

CurrentLibrary == Libraries[sync.lib]
CurrentKey == CurrentLibrary.items[sync.item]

Logged(e, k) == Append(fetch.trace, Event(e, k))

\* an exception leaves syncMediaUnits: the returned promise rejects
SyncAbort(cause) ==
    sync' = [sync EXCEPT !.pc = "idle", !.status = "aborted", !.cause = cause]

\* the row of key k is the JSON of an episode list saved for this token at
\* most CACHE_TTL days ago
RowIsFresh(s, t, k, token) ==
    /\ k \in DOMAIN s
    /\ s[k].payload.kind = "array"
    /\ s[k].show_updated_at = token
    /\ s[k].fetched_at # BadTime
    /\ t - s[k].fetched_at <= CACHE_TTL

\* mutant: the configuration is not looked at
ConfigPresent_Unchecked(configured) == TRUE

\* if (!config.tautulli) throw new Error(...)
ConfigPresent(configured) == configured

\* syncMediaUnits is called: without a configuration it throws at once, else
\* client, cache and fetcher are constructed
SyncStart(gap, configured, upd) ==
    /\ sync.pc = "idle"
    /\ sync.run < MaxRuns
    /\ sync.run = 0 => upd = Num(2)
    /\ sync.run > 0 => now + gap <= MaxTime
    /\ now' = IF sync.run = 0 THEN now ELSE now + gap
    /\ sync' = IF ConfigPresent(configured)
               THEN [NoSync EXCEPT !.pc = "libraries", !.run = sync.run + 1,
                                   !.status = "running",
                                   !.configured = configured,
                                   !.cacheOpen = TRUE,
                                   !.upd = upd]
               ELSE [NoSync EXCEPT !.run = sync.run + 1,
                                   !.status = "aborted",
                                   !.cause = "unconfigured",
                                   !.configured = configured]
    /\ fetch' = NoFetch
    /\ memo' = [x \in {} |-> NoPath]
    /\ sLog' = [NoSyncLog EXCEPT !.tokens = sLog.tokens]
    /\ UNCHANGED <<pureVars, store, capturedAt, lastOp, histVars>>

\* await client.getLibraries()
GetLibraries(outcome) ==
    /\ sync.pc = "libraries"
    /\ IF outcome = "fail" THEN SyncAbort("libraries")
       ELSE sync' = [sync EXCEPT !.pc = "library", !.lib = 1]
    /\ UNCHANGED <<pureVars, cacheVars, histVars, fetch, memo, sLog>>

\* for (const library of libraries): await client.getLibraryMediaItems(...)
GetLibraryMediaItems(outcome) ==
    /\ sync.pc = "library"
    /\ sync.lib <= Len(Libraries)
    /\ IF outcome = "fail" THEN SyncAbort("items")
       ELSE sync' = [sync EXCEPT !.pc = "item", !.item = 1]
    /\ UNCHANGED <<pureVars, cacheVars, histVars, fetch, memo, sLog>>

\* the loop over the libraries ends: aggregate and return the result
SyncFinish ==
    /\ sync.pc = "library"
    /\ sync.lib > Len(Libraries)
    /\ sync' = [sync EXCEPT !.pc = "idle", !.status = "done"]
    /\ UNCHANGED <<pureVars, cacheVars, histVars, fetch, memo, sLog>>

\* for (const item of itemsToProcess): the items of the library are done
NextLibrary ==
    /\ sync.pc = "item"
    /\ sync.item > Len(CurrentLibrary.items)
    /\ sync' = [sync EXCEPT !.pc = "library", !.lib = @ + 1]
    /\ UNCHANGED <<pureVars, cacheVars, histVars, fetch, memo, sLog>>

\* an item that is no show of a show library goes to processItem
TakeItem ==
    /\ sync.pc = "item"
    /\ sync.item <= Len(CurrentLibrary.items)
    /\ ~(CurrentLibrary.section_type = "show"
         /\ LibraryItem(CurrentKey).media_type = "show")
    /\ sync' = [sync EXCEPT !.pc = "process", !.queue = <<LibraryItem(CurrentKey)>>]
    /\ UNCHANGED <<pureVars, cacheVars, histVars, fetch, memo, sLog>>

\* fetchEpisodesForShow up to its first await: the token, cache.load, and on a
\* hit populatePlayStats up to its history request
FetchBegin ==
    /\ sync.pc = "item"
    /\ sync.item <= Len(CurrentLibrary.items)
    /\ CurrentLibrary.section_type = "show"
    /\ LibraryItem(CurrentKey).media_type = "show"
    /\ LET k == CurrentKey
           show == UpstreamItem(k, sync.upd)
           token == GetUpdateToken(show, now)
           r == CacheLoad(store, now, k, token)
           hit == r.result # Absent
           f == [NoFetch EXCEPT !.show = k, !.token = token, !.hit = hit,
                                !.cached = r.result,
                                !.rowValid = RowIsFresh(store, now, k, token),
                                !.trace = <<Event("load", k)>>,
                                !.updated = show.updated_at,
                                !.earlier = IF k \in DOMAIN sLog.tokens
                                            THEN <<sLog.tokens[k]>> ELSE <<>>]
           seen == [x \in DOMAIN sLog.tokens \cup {k} |->
                      IF x = k THEN [updated |-> show.updated_at, token |-> token]
                      ELSE sLog.tokens[x]]
       IN  /\ store' = r.store
           /\ capturedAt' = [x \in DOMAIN store' |-> capturedAt[x]]
           /\ IF ~hit
              THEN /\ fetch' = f
                   /\ sync' = [sync EXCEPT !.pc = "seasons"]
                   /\ sLog' = [sLog EXCEPT !.tokens = seen]
                   /\ UNCHANGED histVars
              ELSE IF r.result.kind # "array"
              \* episodes.length is undefined, then cached.map is no function
              THEN /\ fetch' = f
                   /\ SyncAbort("cached")
                   /\ sLog' = [sLog EXCEPT !.tokens = seen]
                   /\ UNCHANGED histVars
              ELSE IF Len(r.result.items) = 0
              THEN /\ fetch' = [f EXCEPT !.returned = <<>>]
                   /\ sync' = [sync EXCEPT !.pc = "fetched"]
                   /\ sLog' = [sLog EXCEPT !.tokens = seen]
                   /\ UNCHANGED histVars
              ELSE /\ fetch' = [f EXCEPT !.episodes = r.result.items,
                                         !.trace = Append(@, Event("history", k))]
                   /\ sync' = [sync EXCEPT !.pc = "history"]
                   /\ HistBegin
                   /\ sLog' = [sLog EXCEPT !.asked = @ \cup {k}, !.tokens = seen]
    /\ UNCHANGED <<pureVars, now, lastOp, memo>>

\* await this.client.getChildrenMetadata(show.rating_key, "show")
SeasonsResponse(outcome) ==
    /\ sync.pc = "seasons"
    /\ IF outcome = "fail"
       THEN /\ SyncAbort("crawl")
            /\ fetch' = [fetch EXCEPT !.trace = Logged("seasons", fetch.show)]
       ELSE LET seasons == IF outcome = "none" THEN <<>> ELSE SeasonsOf(fetch.show)
            IN  /\ fetch' = [fetch EXCEPT !.listed = seasons, !.seasons = seasons,
                                          !.trace = Logged("seasons", fetch.show)]
                /\ sync' = [sync EXCEPT !.pc = "season"]
    /\ sLog' = Attempt(sLog, Request("seasons", fetch.show, 0), outcome = "fail")
    /\ UNCHANGED <<pureVars, cacheVars, histVars, memo>>

\* for (const season of seasons): the seasons are done
SeasonsDone ==
    /\ sync.pc = "season"
    /\ fetch.seasons = <<>>
    /\ sync' = [sync EXCEPT !.pc = "stats"]
    /\ UNCHANGED <<pureVars, cacheVars, histVars, fetch, memo, sLog>>

\* await this.client.getChildrenMetadata(season.rating_key, "season")
EpisodesResponse(outcome) ==
    /\ sync.pc = "season"
    /\ fetch.seasons # <<>>
    /\ IF outcome = "fail"
       THEN /\ SyncAbort("crawl")
            /\ fetch' = [fetch EXCEPT !.trace = Logged("episodes", Head(fetch.seasons))]
       ELSE /\ fetch' = [fetch EXCEPT
                           !.pending = EpisodesOf(Head(fetch.seasons)),
                           !.trace = Logged("episodes", Head(fetch.seasons))]
            /\ sync' = [sync EXCEPT !.pc = "episode"]
    /\ sLog' = Attempt(sLog, Request("episodes", Head(fetch.seasons), 0),
                       outcome = "fail")
    /\ UNCHANGED <<pureVars, cacheVars, histVars, memo>>

\* mutant: the loop over the episodes is left before its awaits are over
SeasonResolved_Early(pending) == TRUE

\* the loop over the episodes of a season ends when each episode had its
\* awaited path lookup
SeasonResolved(pending) == pending = <<>>

\* for (const episode of seasonEpisodes): the episodes of the season are done
EpisodesDone ==
    /\ sync.pc = "episode"
    /\ SeasonResolved(fetch.pending)
    /\ fetch' = [fetch EXCEPT !.seasons = Tail(@)]
    /\ sync' = [sync EXCEPT !.pc = "season"]
    /\ UNCHANGED <<pureVars, cacheVars, histVars, memo, sLog>>

\* await this.client.getMediaItemFilePath(episode.rating_key), then the push
FilePathResponse(outcome) ==
    /\ sync.pc = "episode"
    /\ fetch.pending # <<>>
    /\ LET episode == Head(fetch.pending)
           r == GetMediaItemFilePath(memo, episode.rating_key, outcome)
       IN  /\ memo' = r.memo
           /\ IF r.threw
              THEN /\ SyncAbort("crawl")
                   /\ fetch' = [fetch EXCEPT
                                  !.trace = Logged("path", episode.rating_key)]
              ELSE /\ fetch' = [fetch EXCEPT
                                  !.pending = Tail(@),
                                  !.episodes = Append(@, BuildCachedEpisode(episode, r.path)),
                                  !.trace = Logged("path", episode.rating_key)]
                   /\ UNCHANGED sync
           /\ sLog' = IF r.requested
                      THEN Attempt(sLog, Request("path", episode.rating_key, 0), r.threw)
                      ELSE sLog
    /\ UNCHANGED <<pureVars, cacheVars, histVars>>

\* populatePlayStats on the crawled list: nothing to do for an empty list,
\* else the history request goes out
StatsBegin ==
    /\ sync.pc = "stats"
    /\ IF fetch.episodes = <<>>
       THEN /\ sync' = [sync EXCEPT !.pc = "save"]
            /\ UNCHANGED <<fetch, histVars, sLog>>
       ELSE /\ sync' = [sync EXCEPT !.pc = "history"]
            /\ fetch' = [fetch EXCEPT !.trace = Logged("history", fetch.show)]
            /\ HistBegin
            /\ sLog' = [sLog EXCEPT !.asked = @ \cup {fetch.show}]
    /\ UNCHANGED <<pureVars, cacheVars, memo>>

\* a get_history request of the show's history lookup is answered
SyncHistoryPage ==
    /\ sync.pc = "history"
    /\ \/ /\ HistPageFails
          /\ sLog' = [Attempt(sLog, Request("page", fetch.show, hStart), TRUE)
                        EXCEPT !.failed = @ \cup {fetch.show}]
       \/ /\ \E entries \in SyncHistoryPages, reported \in SyncReportedTotals :
                HistPageArrives(entries, reported)
          /\ sLog' = Attempt(sLog, Request("page", fetch.show, hStart), FALSE)
    /\ UNCHANGED <<pureVars, cacheVars, sync, fetch, memo>>

\* getShowEpisodeHistory returned: populatePlayStats writes the play counts;
\* on a cache hit fetchEpisodesForShow returns here
HistoryReturns ==
    /\ sync.pc = "history"
    /\ hPc = "done"
    /\ LET applied == ApplyStats(fetch.episodes, hStats)
       IN  IF fetch.hit
           THEN /\ fetch' = [fetch EXCEPT !.episodes = applied, !.returned = applied]
                /\ sync' = [sync EXCEPT !.pc = "fetched"]
           ELSE /\ fetch' = [fetch EXCEPT !.episodes = applied]
                /\ sync' = [sync EXCEPT !.pc = "save"]
    /\ UNCHANGED <<pureVars, cacheVars, histVars, memo, sLog>>

\* this.cache.save(showKey, showUpdatedAt, episodes); return episodes.map(...)
SaveAndReturn ==
    /\ sync.pc = "save"
    /\ store' = CacheSave(store, now, fetch.show, fetch.token, fetch.episodes)
    /\ capturedAt' = KeepCaptured(store', fetch.show, now)
    /\ fetch' = [fetch EXCEPT
                   !.saved = [kind |-> "array", items |-> fetch.episodes],
                   !.returned = fetch.episodes,
                   !.trace = Logged("save", fetch.show)]
    /\ sync' = [sync EXCEPT !.pc = "fetched"]
    /\ UNCHANGED <<pureVars, now, lastOp, histVars, memo, sLog>>

\* const episodes = await episodeFetcher.fetchEpisodesForShow(...)
FetchReturns ==
    /\ sync.pc = "fetched"
    /\ sync' = [sync EXCEPT !.pc = "process", !.queue = fetch.returned]
    /\ sLog' = [sLog EXCEPT !.fetched = @ \cup {fetch.show}]
    /\ fetch' = NoFetch
    /\ hPc' = "idle"
    /\ hStart' = 0
    /\ hTotal' = NullV
    /\ hStats' = EmptyStats
    /\ hLog' = NoLog
    /\ UNCHANGED <<pureVars, cacheVars, memo>>

\* isSupportedMediaType
IsSupportedMediaType(mediaType) == mediaType \in {"movie", "episode"}

\* mutant: an item whose stat fails is imported all the same
ItemOutcome_StatIgnored(supported, filePath, statOk) ==
    IF ~supported THEN "skippedUnsupported"
    ELSE IF filePath = NoPath THEN "skippedMissingFile"
    ELSE IF ~IsPathAllowed(filePath) THEN "skippedDueToPath"
    ELSE "imported"

\* processItem: the counter the item ends in, by the order of its returns
ItemOutcome(supported, filePath, statOk) ==
    IF ~supported THEN "skippedUnsupported"
    ELSE IF filePath = NoPath THEN "skippedMissingFile"
    ELSE IF ~IsPathAllowed(filePath) THEN "skippedDueToPath"
    ELSE IF ~statOk THEN "skippedMissingFile"
    ELSE "imported"

\* history variable: what happened to the item in processItem: the path it
\* ended with and what safeStat gave, "none" when safeStat was not reached
Handled(item, supported, filePath, statOk) ==
    [k |-> item.rating_key, media_type |-> item.media_type,
     path |-> IF supported THEN filePath ELSE NoPath,
     stat |-> IF supported /\ filePath # NoPath /\ IsPathAllowed(filePath)
              THEN (IF statOk THEN "file" ELSE "null") ELSE "none"]

\* processItem(item): one item ends as imported or as one kind of skip
ProcessItem(outcome, statOk) ==
    /\ sync.pc = "process"
    /\ sync.queue # <<>>
    /\ LET item == Head(sync.queue)
           supported == IsSupportedMediaType(item.media_type)
           lookup == supported /\ item.file = NoPath
           r == GetMediaItemFilePath(memo, item.rating_key, outcome)
           filePath == IF lookup THEN r.path ELSE item.file
           result == ItemOutcome(supported, filePath, statOk)
           log == [sLog EXCEPT
                     !.handled = @ \cup {Handled(item, supported, filePath, statOk)}]
       IN  /\ memo' = IF lookup THEN r.memo ELSE memo
           /\ sync' = [sync EXCEPT
                         !.queue = Tail(@),
                         !.out = [@ EXCEPT ![result] = @ + 1,
                                           !.processed = @ + 1]]
           /\ sLog' = IF lookup /\ r.requested
                      THEN Attempt(log, Request("path", item.rating_key, 0), r.threw)
                      ELSE log
    /\ UNCHANGED <<pureVars, cacheVars, histVars, fetch>>

\* the episodes of the show, or the item, are processed: next item
ItemDone ==
    /\ sync.pc = "process"
    /\ sync.queue = <<>>
    /\ sync' = [sync EXCEPT !.pc = "item", !.item = @ + 1]
    /\ UNCHANGED <<pureVars, cacheVars, histVars, fetch, memo, sLog>>

\* the cache file at the first run: empty, or a row whose payload is JSON but
\* no episode list
SyncInitStores ==
    { [x \in {} |-> 0],
      [x \in {"s1"} |-> [show_updated_at |-> 2000, fetched_at |-> 0,
                         payload |-> ObjectPayload]] }

SyncInit ==
    /\ store \in SyncInitStores
    /\ now = 0
    /\ capturedAt = [x \in DOMAIN store |-> 0]
    /\ lastOp = NoOp
    /\ HistIdle
    /\ SyncIdle
    /\ PureIdle

SyncNext ==
    \/ \E gap \in RunGaps, configured \in BOOLEAN, upd \in ShowUpdates :
          SyncStart(gap, configured, upd)
    \/ \E outcome \in {"fail", "ok"} : GetLibraries(outcome)
    \/ \E outcome \in {"fail", "ok"} : GetLibraryMediaItems(outcome)
    \/ SyncFinish
    \/ NextLibrary
    \/ TakeItem
    \/ FetchBegin
    \/ \E outcome \in {"fail", "none", "ok"} : SeasonsResponse(outcome)
    \/ SeasonsDone
    \/ \E outcome \in {"fail", "ok"} : EpisodesResponse(outcome)
    \/ EpisodesDone
    \/ \E outcome \in {"fail", "ok"} : FilePathResponse(outcome)
    \/ StatsBegin
    \/ SyncHistoryPage
    \/ HistoryReturns
    \/ SaveAndReturn
    \/ FetchReturns
    \/ \E outcome \in {"fail", "ok"}, statOk \in BOOLEAN : ProcessItem(outcome, statOk)
    \/ ItemDone

SyncSpec == SyncInit /\ [][SyncNext]_vars

(* The history specification: getShowEpisodeHistory called again and again *)

HistoryInit ==
    /\ store = [x \in {} |-> 0]
    /\ now = 0
    /\ capturedAt = [x \in {} |-> 0]
    /\ lastOp = NoOp
    /\ HistIdle
    /\ SyncIdle
    /\ PureIdle

\* a caller enters getShowEpisodeHistory with a non-empty show key
HistCall ==
    /\ hPc \in {"idle", "done"}
    /\ HistBegin
    /\ UNCHANGED <<cacheVars, syncVars, pureVars>>

HistStep ==
    /\ HistPage
    /\ UNCHANGED <<cacheVars, syncVars, pureVars>>

HistoryNext == HistCall \/ HistStep

HistorySpec == HistoryInit /\ [][HistoryNext]_vars

\* every awaited request is answered or fails
HistoryFairSpec == HistorySpec /\ WF_vars(HistStep)

----------------------------------------------------------------------------
(* The cache specification: any sequence of save, load, clear on a store    *)
(* that may hold rows from earlier runs, corrupt ones included              *)

InitRows ==
    [show_updated_at : Tokens, fetched_at : {0}, payload : CorruptPayloads]
    \cup [show_updated_at : Tokens, fetched_at : {BadTime},
          payload : {Stringify(<<EpN>>)}]

InitStores ==
    UNION {[D -> InitRows] : D \in SUBSET Keys}

CacheInit ==
    /\ store \in InitStores
    /\ now = 0
    /\ capturedAt = [x \in DOMAIN store |-> 0]
    /\ lastOp = NoOp
    /\ HistIdle
    /\ SyncIdle
    /\ PureIdle

Save(k, token, episodes) ==
    /\ store' = CacheSave(store, now, k, token, episodes)
    /\ capturedAt' = KeepCaptured(store', k, now)
    /\ lastOp' = [NoOp EXCEPT !.op = "save", !.key = k, !.token = token,
                              !.at = now, !.arg = Stringify(episodes),
                              !.hadRow = k \in DOMAIN store,
                              !.prevArg = [kind |-> "array", items |-> episodes]]
    /\ UNCHANGED <<now, histVars, syncVars, pureVars>>

Load(k, token) ==
    LET r == CacheLoad(store, now, k, token)
        had == k \in DOMAIN store
        rel == PrevRelation(lastOp, k, token, now)
    IN  /\ store' = r.store
        /\ capturedAt' = [x \in DOMAIN store' |-> capturedAt[x]]
        /\ lastOp' = [NoOp EXCEPT
                        !.op = "load", !.key = k, !.token = token, !.at = now,
                        !.result = r.result,
                        !.hadRow = had,
                        !.rowToken = IF had THEN store[k].show_updated_at ELSE 0,
                        !.rowKind = IF had THEN store[k].payload.kind ELSE "",
                        !.rowTimeOk = had /\ store[k].fetched_at # BadTime,
                        !.age = IF had THEN now - capturedAt[k] ELSE 0,
                        !.prev = rel,
                        !.prevArg = IF rel = "save_same" THEN lastOp.prevArg
                                    ELSE Absent]
        /\ UNCHANGED <<now, histVars, syncVars, pureVars>>

Clear ==
    /\ store' = CacheClear(store)
    /\ capturedAt' = [x \in {} |-> 0]
    /\ lastOp' = [NoOp EXCEPT !.op = "clear", !.at = now]
    /\ UNCHANGED <<now, histVars, syncVars, pureVars>>

Tick ==
    /\ now < MaxTime
    /\ now' = now + 1
    /\ UNCHANGED <<store, capturedAt, lastOp, histVars, syncVars, pureVars>>

CacheNext ==
    \/ \E k \in Keys, token \in Tokens, episodes \in EpisodeLists :
          Save(k, token, episodes)
    \/ \E k \in Keys, token \in Tokens : Load(k, token)
    \/ Clear
    \/ Tick

CacheSpec == CacheInit /\ [][CacheNext]_vars

----------------------------------------------------------------------------
(* Claims about EpisodeCache, checked under CacheSpec *)

\* the row a load found was valid: same token, a capture time at most 7 days
\* back, payload the JSON of an episode list
RowWasValid(o) ==
    /\ o.hadRow
    /\ o.rowToken = o.token
    /\ o.rowTimeOk
    /\ o.age <= CACHE_TTL
    /\ o.rowKind = "array"

\* C1: after save(key, tokenA, episodes), a load(key, tokenB) with another
\* token returns absent and leaves no row for the key, and the load(key, tokenA)
\* that follows it returns absent as well.
C1_Invalidation ==
    lastOp.op = "load" =>
        /\ lastOp.prev = "save_other" =>
                lastOp.result = Absent /\ lastOp.key \notin DOMAIN store
        /\ lastOp.prev = "purged" => lastOp.result = Absent

\* save(k, tokenA, e); load(k, tokenB); load(k, tokenA) has run
C1_Witness ==
    lastOp.op = "load" /\ lastOp.prev = "purged" /\ ~lastOp.hadRow

\* C2: load returns an entry only while now - capturedAt <= 7 days, capturedAt
\* being the time of the last save of the key: a valid row of that age is
\* returned, an older one is not even when its token matches, and no load
\* changes the stored capture time.
C2_Ttl ==
    /\ \A k \in DOMAIN store :
          store[k].fetched_at \in {capturedAt[k], BadTime}
    /\ lastOp.op = "load" /\ lastOp.hadRow =>
          /\ lastOp.result # Absent => lastOp.age <= CACHE_TTL
          /\ lastOp.age > CACHE_TTL => lastOp.key \notin DOMAIN store
          /\ RowWasValid(lastOp) => lastOp.result # Absent

\* a load with the matching token found a row saved more than 7 days before
C2_Witness ==
    /\ lastOp.op = "load" /\ lastOp.hadRow
    /\ lastOp.rowToken = lastOp.token
    /\ lastOp.rowTimeOk
    /\ lastOp.rowKind = "array"
    /\ lastOp.age > CACHE_TTL
    /\ lastOp.result = Absent

\* C3: save(key, token, episodes) followed immediately by load(key, token)
\* returns a list equal to episodes: same episodes, same order, same field
\* values.
C3_RoundTrip ==
    lastOp.op = "load" /\ lastOp.prev = "save_same" =>
        lastOp.result = lastOp.prevArg

\* C4: a load that finds a row which is not valid (other token, older than
\* 7 days, payload unparsable or not an episode list) returns absent and
\* leaves no row for the key.
C4_FailedLoadDeletes ==
    lastOp.op = "load" /\ lastOp.hadRow /\ ~RowWasValid(lastOp) =>
        lastOp.result = Absent /\ lastOp.key \notin DOMAIN store

----------------------------------------------------------------------------
(* Claims about getShowEpisodeHistory *)

\* the stats agree with the rows of the pages fetched
StatsMatchRows ==
    /\ DOMAIN hStats = DOMAIN hLog.counts
    /\ \A k \in DOMAIN hStats :
          /\ hStats[k].playCount = hLog.counts[k]
          /\ hStats[k].lastPlayed =
                (IF hLog.latest[k] = 0 THEN NullV ELSE Num(hLog.latest[k]))

\* C8: over all pages fetched for a show, the stat of each item identifier has
\* playCount equal to the sum of the play-group counts of its rows, a count
\* that is unparsable or not positive counting as 1, and lastPlayed equal to
\* the latest timestamp among its rows.
C8_Reconciliation == StatsMatchRows

\* e1 has rows on two pages, with counts 3 and 2 and timestamps 20 and 10
C8_Witness ==
    /\ hPc = "done"
    /\ hLog.pages = 2
    /\ "e1" \in hLog.multi
    /\ "e1" \in DOMAIN hStats
    /\ hStats["e1"] = [playCount |-> 5, lastPlayed |-> Num(20)]

\* C9: no page is requested after the first page with fewer rows than the page
\* size, after the offset reached the reported total, or after a failed
\* request; and against a server that answers so within MaxPages requests
\* every call returns.
C9_Terminates ==
    /\ [](hLog.stopSeen => hPc # "request")
    /\ (hPc = "request") ~> (hPc = "done")

\* a call that returned after several pages, none of which failed
C9_Witness ==
    /\ hPc = "done"
    /\ hLog.stopSeen
    /\ ~hLog.failed
    /\ hLog.pages = MaxPages
    /\ hStart >= HISTORY_PAGE_SIZE

----------------------------------------------------------------------------
(* Claims about fetchEpisodesForShow and syncMediaUnits *)

\* the events e of a trace
EventsOf(trace, e) == {i \in 1..Len(trace) : trace[i].e = e}

\* the requests of the crawl of one season: its episodes, then a path lookup
\* for each of them
SeasonTrace(season) ==
    <<Event("episodes", season)>> \o
    [i \in 1..Len(EpisodesOf(season)) |-> Event("path", EpisodesOf(season)[i].rating_key)]

RECURSIVE SeasonsTrace(_)
SeasonsTrace(seasons) ==
    IF seasons = <<>> THEN <<>>
    ELSE SeasonTrace(Head(seasons)) \o SeasonsTrace(Tail(seasons))

\* what a fetch that missed does, in order
MissTrace(f) ==
    <<Event("load", f.show), Event("seasons", f.show)>>
    \o SeasonsTrace(f.listed)
    \o (IF f.returned = <<>> THEN <<>> ELSE <<Event("history", f.show)>>)
    \o <<Event("save", f.show)>>

\* fetchEpisodesForShow is about to return to syncMediaUnits
FetchReturning == sync.pc = "fetched"

\* C5: a failure of the season listing, of an episode listing or of an
\* episode's path lookup inside fetchEpisodesForShow never aborts the run of
\* syncMediaUnits.
C5_Isolation == ~(sync.status = "aborted" /\ sync.cause = "crawl")

\* C6 as stated: every fetch that hit the cache made exactly one history
\* lookup.
C6_OneLookupOnEveryHit ==
    (FetchReturning /\ fetch.hit) =>
        Cardinality(EventsOf(fetch.trace, "history")) = 1

\* C6, amended: a fetch that hit the cache lists no seasons and no episodes
\* and looks up no path; when it returns it made one history lookup if the
\* cached list has an episode and none if the list is empty, and it returns
\* the cached episodes in order, the play count of each episode the history
\* has a stat for being the count of that stat.
C6_CacheHit ==
    fetch.hit =>
        /\ EventsOf(fetch.trace, "seasons") = {}
        /\ EventsOf(fetch.trace, "episodes") = {}
        /\ EventsOf(fetch.trace, "path") = {}
        /\ EventsOf(fetch.trace, "save") = {}
        /\ FetchReturning =>
              /\ Cardinality(EventsOf(fetch.trace, "history")) =
                    (IF fetch.cached.items = <<>> THEN 0 ELSE 1)
              /\ Len(fetch.returned) = Len(fetch.cached.items)
              /\ \A i \in 1..Len(fetch.returned) :
                    LET got == fetch.returned[i]
                        was == fetch.cached.items[i]
                    IN  /\ got.rating_key = was.rating_key
                        /\ got.file = was.file
                        /\ got.added_at = was.added_at
                        /\ got.rating_key \in DOMAIN hStats =>
                              got.play_count = Num(hStats[got.rating_key].playCount)

\* a hit on the list of show s1 saved by the run before, whose e1 gets the
\* count of two history rows and whose e2 has no stat
C6_Witness ==
    /\ FetchReturning
    /\ fetch.hit
    /\ sync.run = 2
    /\ fetch.show = "s1"
    /\ Len(fetch.returned) = 3
    /\ DOMAIN hStats = {"e1"}
    /\ hStats["e1"].playCount = 5
    /\ fetch.cached.items[1].play_count # Num(5)

\* C7: a fetch that missed the cache lists the seasons, then for each season
\* its episodes and then the path of each of them, then looks up the history,
\* then saves once and returns; the list saved is the list returned, under the
\* show's token; and a fetch that finds the row of such a save with the same
\* token at most CACHE_TTL days old is a hit.
C7_CacheMiss ==
    /\ (FetchReturning /\ ~fetch.hit) =>
          /\ fetch.trace = MissTrace(fetch)
          /\ Cardinality(EventsOf(fetch.trace, "save")) = 1
          /\ fetch.saved = [kind |-> "array", items |-> fetch.returned]
          /\ RowIsFresh(store, now, fetch.show, fetch.token)
          /\ store[fetch.show].show_updated_at = fetch.token
          /\ store[fetch.show].payload = Stringify(fetch.returned)
    /\ fetch.rowValid => fetch.hit

\* the second run, CACHE_TTL days after the first, hits the three episodes of
\* show s1 that the first run crawled and saved
C7_Witness ==
    /\ FetchReturning
    /\ sync.run = 2
    /\ now = CACHE_TTL
    /\ fetch.show = "s1"
    /\ fetch.rowValid
    /\ fetch.hit
    /\ Len(fetch.cached.items) = 3
    /\ store["s1"].fetched_at = 0

\* C10: a failed history request ends the history lookup at once with the
\* stats of the pages before it, the run is not aborted by it, and a show
\* fetched after it with episodes still has its history looked up.
C10_PartialHistory ==
    /\ hLog.failed => (hPc = "done" /\ StatsMatchRows)
    /\ (sync.pc = "history" /\ hLog.failed) => sync.status = "running"
    /\ (FetchReturning /\ fetch.returned # <<>>) => fetch.show \in sLog.asked

\* the history of show s1 failed; that of show s2 is asked for and fails on
\* its second page, after a full page of two rows
C10_Witness ==
    /\ sync.pc = "history"
    /\ fetch.show = "s2"
    /\ "s1" \in sLog.failed
    /\ "s2" \in sLog.asked
    /\ hPc = "done"
    /\ hLog.failed
    /\ hLog.pages = 1
    /\ DOMAIN hStats # {}

\* the episodes the listings of the seasons give, in the order of the crawl
RECURSIVE ListedEpisodes(_)
ListedEpisodes(seasons) ==
    IF seasons = <<>> THEN <<>>
    ELSE EpisodesOf(Head(seasons)) \o ListedEpisodes(Tail(seasons))

\* the episodes a fetch had before the history: the cached list, or the
\* listings
KnownEpisodes(f) ==
    IF f.hit THEN f.cached.items ELSE ListedEpisodes(f.listed)

\* C11: when a history request of the show failed, on the first page or on a
\* later one, the fetch returns all episodes of the show and the play count of
\* each is the count known before (of the cache entry or of the listing), or 0
\* when none was known.
C11_Degrades ==
    (FetchReturning /\ hLog.failed) =>
        /\ Len(fetch.returned) = Len(KnownEpisodes(fetch))
        /\ \A i \in 1..Len(fetch.returned) :
              /\ fetch.returned[i].rating_key = KnownEpisodes(fetch)[i].rating_key
              /\ fetch.returned[i].play_count =
                    Coalesce(NormalizePlayCount(KnownEpisodes(fetch)[i].play_count), Num(0))

\* C12: a run of syncMediaUnits without a configuration of the service ends
\* at once with an error: no request was made, nothing was fetched or
\* processed, the cache was not opened, and the cache file is as it was.
C12_Unconfigured ==
    /\ [](~sync.configured =>
            /\ sync.pc = "idle"
            /\ sync.status = "aborted"
            /\ sync.cause = "unconfigured"
            /\ ~sync.cacheOpen
            /\ sync.lib = 0
            /\ sync.out = NoOut
            /\ fetch = NoFetch
            /\ [sLog EXCEPT !.tokens = <<>>] = NoSyncLog
            /\ DOMAIN memo = {})
    /\ [][~sync'.configured => store' = store]_vars

\* the second run has no configuration; the cache file holds the row the
\* first run saved
C12_Witness ==
    /\ ~sync.configured
    /\ sync.run = 2
    /\ sync.status = "aborted"
    /\ "s1" \in DOMAIN store
    /\ store["s1"].payload.kind = "array"

----------------------------------------------------------------------------
(* aggregateMediaUnits: MediaSource records folded into MediaUnit records.  *)
(* Dates are numbers of days; a null string is NullKey.                     *)

\* sources in one argument of aggregateMediaUnits
MaxSources == 3

Source(id, kind, title, seasonKey, seasonTitle, showKey, showTitle, size, added, played, plays) ==
    [id |-> id, mediaKind |-> kind, title |-> title,
     seasonKey |-> seasonKey, seasonTitle |-> seasonTitle,
     showKey |-> showKey, showTitle |-> showTitle,
     path |-> Path("lib", id), sizeBytes |-> size, addedAt |-> added,
     lastPlayedAt |-> played, playCount |-> plays, librarySectionId |-> 1]

\* a movie; two episodes of season a1 (sizes 1 and 2, plays 0 and 3, the
\* first added earlier); two episodes of show s1 that carry no season key and
\* no season title; an episode with no season key and no show key
SourcePool ==
    { Source("m1", "movie", "Movie", NullKey, NullKey, NullKey, NullKey,
             4, 3, NullV, 0),
      Source("e1", "episode", "Ep 1", "a1", "Season 1", "s1", "Show",
             1, 1, NullV, 0),
      Source("e2", "episode", "Ep 2", "a1", "Season 1", "s1", "Show",
             2, 2, Num(9), 3),
      Source("e5", "episode", "Ep 5", NullKey, NullKey, "s1", "Show",
             1, 5, Num(5), 1),
      Source("e6", "episode", "Ep 6", NullKey, NullKey, "s1", NullKey,
             3, 4, Num(7), 2),
      Source("e7", "episode", "Ep 7", NullKey, NullKey, NullKey, NullKey,
             2, 6, NullV, 0) }

SourceLists == SeqsUpTo(SourcePool, MaxSources)

\* a ?? b on strings
CoalesceKey(a, b) == IF a # NullKey THEN a ELSE b

\* mutant: the show key goes before the season key
UnitKey_ShowFirst(source) ==
    IF source.mediaKind = "movie" THEN source.id
    ELSE CoalesceKey(source.showKey, CoalesceKey(source.seasonKey, source.id))

\* determineUnitIdentity, the key: source.id of a movie, else
\* source.seasonKey ?? source.showKey ?? source.id
UnitKey(source) ==
    IF source.mediaKind = "movie" THEN source.id
    ELSE CoalesceKey(source.seasonKey, CoalesceKey(source.showKey, source.id))

\* determineUnitIdentity
DetermineUnitIdentity(source) ==
    IF source.mediaKind = "movie"
    THEN [key |-> UnitKey(source), kind |-> "movie", title |-> source.title,
          parentTitle |-> NullKey]
    ELSE [key |-> UnitKey(source),
          kind |-> "season",
          title |-> CoalesceKey(source.seasonTitle, source.title),
          parentTitle |-> source.showTitle]

\* the builder a key gets when it is first seen
NewBuilder(source) ==
    LET identity == DetermineUnitIdentity(source)
    IN  [id |-> identity.key, kind |-> identity.kind, title |-> identity.title,
         parentTitle |-> identity.parentTitle,
         librarySectionId |-> source.librarySectionId,
         sizeBytes |-> 0, addedAt |-> source.addedAt,
         lastPlayedAt |-> source.lastPlayedAt,
         totalPlayCount |-> 0, maxItemPlayCount |-> 0, itemsWithPlays |-> 0,
         itemCount |-> 0, paths |-> {}, sourceItems |-> <<>>]

\* mutant: the size of the unit is the size of its last source
AddSize_Last(total, size) == size

\* builder.sizeBytes += source.sizeBytes
AddSize(total, size) == total + size

\* mutant: the unit keeps the date of its first source
EarlierAdded_First(builderAdded, sourceAdded) == builderAdded

\* source.addedAt < builder.addedAt ? source.addedAt : builder.addedAt
EarlierAdded(builderAdded, sourceAdded) ==
    IF sourceAdded < builderAdded THEN sourceAdded ELSE builderAdded

\* if (source.lastPlayedAt) { if (!builder.lastPlayedAt || ... > ...) ... }
LaterPlayed(builderPlayed, sourcePlayed) ==
    IF sourcePlayed.t = "num"
       /\ (builderPlayed.t # "num" \/ sourcePlayed.v > builderPlayed.v)
    THEN sourcePlayed ELSE builderPlayed

\* mutant: every source counts as played
PlayedItem_Always(plays) == 1

\* if (source.playCount > 0) builder.itemsWithPlays += 1
PlayedItem(plays) == IF plays > 0 THEN 1 ELSE 0

\* the body of the loop after the builder is found or made
AddToBuilder(builder, source) ==
    LET identity == DetermineUnitIdentity(source)
    IN  [builder EXCEPT
           !.sizeBytes = AddSize(@, source.sizeBytes),
           !.addedAt = EarlierAdded(@, source.addedAt),
           !.lastPlayedAt = LaterPlayed(@, source.lastPlayedAt),
           !.totalPlayCount = @ + source.playCount,
           !.maxItemPlayCount = IF source.playCount > @ THEN source.playCount ELSE @,
           !.itemsWithPlays = @ + PlayedItem(source.playCount),
           !.itemCount = @ + 1,
           !.paths = @ \cup {source.path},
           !.sourceItems = Append(@, source),
           !.parentTitle =
               IF identity.kind = "season"
               THEN CoalesceKey(identity.parentTitle, @) ELSE @]

\* for (const source of sources): map is the Map, order its insertion order
RECURSIVE AggregateFold(_, _, _)
AggregateFold(map, order, list) ==
    IF list = <<>> THEN [map |-> map, order |-> order]
    ELSE LET source == Head(list)
             key == DetermineUnitIdentity(source).key
             seen == key \in DOMAIN map
             builder == IF seen THEN map[key] ELSE NewBuilder(source)
             next == AddToBuilder(builder, source)
         IN  AggregateFold([x \in DOMAIN map \cup {key} |->
                               IF x = key THEN next ELSE map[x]],
                           IF seen THEN order ELSE Append(order, key),
                           Tail(list))

\* aggregateMediaUnits: Array.from(map.values()).map(...)
AggregateMediaUnits(list) ==
    LET r == AggregateFold([x \in {} |-> 0], <<>>, list)
    IN  [i \in 1..Len(r.order) |-> r.map[r.order[i]]]

\* aggregateMediaUnits(sources) is called and returns
Aggregate ==
    /\ aggPc = "input"
    /\ units' = AggregateMediaUnits(sources)
    /\ aggPc' = "done"
    /\ UNCHANGED <<sources, cacheVars, histVars, syncVars, scoreVars, sideVars>>

\* another list of sources is handed over
NextSources ==
    /\ aggPc = "done"
    /\ sources' \in SourceLists
    /\ units' = <<>>
    /\ aggPc' = "input"
    /\ UNCHANGED <<cacheVars, histVars, syncVars, scoreVars, sideVars>>

AggInit ==
    /\ store = [x \in {} |-> 0]
    /\ now = 0
    /\ capturedAt = [x \in {} |-> 0]
    /\ lastOp = NoOp
    /\ HistIdle
    /\ SyncIdle
    /\ SideIdle
    /\ sources \in SourceLists
    /\ units = <<>>
    /\ aggPc = "input"
    /\ ScoreIdle

AggNext == Aggregate \/ NextSources

AggSpec == AggInit /\ [][AggNext]_vars

----------------------------------------------------------------------------
(* Claims about aggregateMediaUnits, checked under AggSpec *)

RECURSIVE SumSizes(_)
SumSizes(list) ==
    IF list = <<>> THEN 0 ELSE Head(list).sizeBytes + SumSizes(Tail(list))

RECURSIVE SumPlays(_)
SumPlays(list) ==
    IF list = <<>> THEN 0 ELSE Head(list).playCount + SumPlays(Tail(list))

\* the grouping key as the claims word it
GroupingKey(source) ==
    IF source.mediaKind = "movie" THEN source.id
    ELSE IF source.seasonKey # NullKey THEN source.seasonKey
    ELSE IF source.showKey # NullKey THEN source.showKey
    ELSE source.id

\* the positions of the argument whose source has grouping key k
Sharing(k) == {i \in 1..Len(sources) : GroupingKey(sources[i]) = k}

\* C14: the sizes of the units returned add up to the sizes of the sources.
C14_SizeConserved ==
    aggPc = "done" => SumSizes(units) = SumSizes(sources)

\* two units out of three sources
C14_Witness ==
    /\ aggPc = "done"
    /\ Len(sources) = 3
    /\ Len(units) = 2
    /\ SumSizes(sources) = 7

\* C15: every unit has the earliest addedAt of the sources that share its
\* key, and the latest lastPlayedAt of those that have one, or null when none
\* of them has one.
C15_Dates ==
    aggPc = "done" =>
        \A j \in 1..Len(units) :
            LET mine == Sharing(units[j].id)
                played == {i \in mine : sources[i].lastPlayedAt.t = "num"}
            IN  /\ \E i \in mine : units[j].addedAt = sources[i].addedAt
                /\ \A i \in mine : units[j].addedAt <= sources[i].addedAt
                /\ IF played = {} THEN units[j].lastPlayedAt = NullV
                   ELSE /\ \E i \in played : units[j].lastPlayedAt = sources[i].lastPlayedAt
                        /\ \A i \in played :
                              units[j].lastPlayedAt.v >= sources[i].lastPlayedAt.v

\* season a1 with the later episode first: added on day 1, last played on day 9
C15_Witness ==
    /\ aggPc = "done"
    /\ Len(sources) = 2
    /\ sources[1].id = "e2"
    /\ sources[2].id = "e1"
    /\ Len(units) = 1
    /\ units[1].addedAt = 1
    /\ units[1].lastPlayedAt = Num(9)

\* a unit without the order of its sources
UnitValue(u) ==
    [id |-> u.id, kind |-> u.kind, title |-> u.title,
     parentTitle |-> u.parentTitle, librarySectionId |-> u.librarySectionId,
     sizeBytes |-> u.sizeBytes, addedAt |-> u.addedAt,
     lastPlayedAt |-> u.lastPlayedAt, totalPlayCount |-> u.totalPlayCount,
     maxItemPlayCount |-> u.maxItemPlayCount,
     itemsWithPlays |-> u.itemsWithPlays, itemCount |-> u.itemCount,
     paths |-> u.paths]

UnitValues(list) == {UnitValue(list[i]) : i \in 1..Len(list)}

\* the argument in another order
Reordered(q) == [i \in 1..Len(sources) |-> sources[q[i]]]

\* C16: whatever the order of the sources, aggregateMediaUnits returns the
\* same units with the same values.
C16_OrderIndependent ==
    aggPc = "done" =>
        \A q \in Permutations(1..Len(sources)) :
            UnitValues(AggregateMediaUnits(Reordered(q))) = UnitValues(units)

C18_UnitInvariant ==
    aggPc = "done" =>
        \A j \in 1..Len(units) :
            LET u == units[j]
                members == u.sourceItems
                plays == {members[n].playCount : n \in 1..Len(members)}
            IN  /\ u.itemCount = Len(members)
                /\ u.itemCount >= 1
                /\ u.itemCount = Cardinality(Sharing(u.id))
                /\ u.totalPlayCount = SumPlays(members)
                /\ u.maxItemPlayCount \in plays
                /\ \A c \in plays : c <= u.maxItemPlayCount
                /\ u.itemsWithPlays =
                      Cardinality({n \in 1..Len(members) : members[n].playCount > 0})
                /\ u.itemsWithPlays <= u.itemCount
                /\ Cardinality(u.paths) <= u.itemCount

\* two episodes of season a1: sizes 1 and 2, play counts 0 and 3
C18_Witness ==
    /\ aggPc = "done"
    /\ Len(sources) = 2
    /\ sources[1].id = "e1"
    /\ sources[2].id = "e2"
    /\ Len(units) = 1
    /\ units[1].sizeBytes = 3
    /\ units[1].totalPlayCount = 3
    /\ units[1].itemsWithPlays = 1
    /\ units[1].itemCount = 2
    /\ units[1].addedAt = 1

----------------------------------------------------------------------------
(* scoreMediaItems. A JavaScript number is a fraction n/d in lowest terms,   *)
(* NaN, Infinity or -Infinity.                                              *)

RECURSIVE Gcd(_, _)
Gcd(a, b) == IF b = 0 THEN a ELSE Gcd(b, a % b)

Abs(n) == IF n < 0 THEN -n ELSE n

\* the number n/d, d > 0
Q(n, d) ==
    LET g == Gcd(Abs(n), d)
    IN  [t |-> "num", n |-> n \div g, d |-> d \div g]

QNaN == [t |-> "nan", n |-> 0, d |-> 1]
QInf == [t |-> "inf", n |-> 0, d |-> 1]
QNegInf == [t |-> "ninf", n |-> 0, d |-> 1]

\* -1, 0 or 1 as the number is below, at or above zero (NaN excluded)
QSign(a) ==
    CASE a.t = "inf" -> 1
      [] a.t = "ninf" -> -1
      [] OTHER -> IF a.n > 0 THEN 1 ELSE IF a.n < 0 THEN -1 ELSE 0

\* a < b, false when either is NaN
QLess(a, b) ==
    CASE a.t = "nan" \/ b.t = "nan" -> FALSE
      [] a.t = "inf" \/ b.t = "ninf" -> FALSE
      [] a.t = "ninf" \/ b.t = "inf" -> TRUE
      [] OTHER -> a.n * b.d < b.n * a.d

\* a + b
QAdd(a, b) ==
    CASE a.t = "nan" \/ b.t = "nan" -> QNaN
      [] a.t = "inf" -> IF b.t = "ninf" THEN QNaN ELSE QInf
      [] a.t = "ninf" -> IF b.t = "inf" THEN QNaN ELSE QNegInf
      [] b.t # "num" -> b
      [] OTHER -> Q(a.n * b.d + b.n * a.d, a.d * b.d)

\* -a
QNeg(a) ==
    CASE a.t = "nan" -> QNaN
      [] a.t = "inf" -> QNegInf
      [] a.t = "ninf" -> QInf
      [] OTHER -> Q(-a.n, a.d)

\* a - b
QSub(a, b) == QAdd(a, QNeg(b))

\* a * b
QMul(a, b) ==
    CASE a.t = "nan" \/ b.t = "nan" -> QNaN
      [] a.t = "num" /\ b.t = "num" -> Q(a.n * b.n, a.d * b.d)
      [] QSign(a) * QSign(b) = 0 -> QNaN
      [] QSign(a) * QSign(b) > 0 -> QInf
      [] OTHER -> QNegInf

\* a / b: a finite number over 0 is an infinity, 0 / 0 is NaN
QDiv(a, b) ==
    CASE a.t = "nan" \/ b.t = "nan" -> QNaN
      [] a.t # "num" /\ b.t # "num" -> QNaN
      [] b.t # "num" -> Q(0, 1)
      [] a.t # "num" -> IF QSign(a) * QSign(b) >= 0 THEN QInf ELSE QNegInf
      [] b.n = 0 -> IF a.n = 0 THEN QNaN ELSE IF a.n > 0 THEN QInf ELSE QNegInf
      [] OTHER -> IF b.n > 0 THEN Q(a.n * b.d, a.d * b.n)
                  ELSE Q(-(a.n * b.d), a.d * (-b.n))

\* Math.max(a, b): NaN when either is NaN
QMax(a, b) ==
    IF a.t = "nan" \/ b.t = "nan" THEN QNaN
    ELSE IF QLess(a, b) THEN b ELSE a

\* Math.min(a, b): NaN when either is NaN
QMin(a, b) ==
    IF a.t = "nan" \/ b.t = "nan" THEN QNaN
    ELSE IF QLess(b, a) THEN b ELSE a

\* mutant: no upper limit
Clamp_NoCeiling(value, min, max) == QMax(value, min)

\* clamp
Clamp(value, min, max) == QMin(QMax(value, min), max)

\* days are counted in quarters of a year: a year, scaled from its milliseconds
YEAR_IN_MS == 4

\* sizes are counted in tenths of a gigabyte: 1024 ** 3, scaled
GIGABYTE == 10

\* units in one argument of scoreMediaItems
MaxUnits == 3

\* options.now, ten years on
ScoreNow == 40

Unit(id, size, added, plays, played, count) ==
    [id |-> id, sizeBytes |-> size, addedAt |-> added, totalPlayCount |-> plays,
     itemsWithPlays |-> played, itemCount |-> count]

\* a large old unit never played, twice; a unit a year old played once; an
\* empty unit added in the future; a small unit five years old, one of its
\* three items played once; the same unit with that item played twice
UnitPool ==
    { Unit("u1", 999, 0, 0, 0, 2),
      Unit("u2", 99, 36, 1, 1, 1),
      Unit("u3", 0, 44, 0, 0, 1),
      Unit("u4", 999, 0, 0, 0, 2),
      Unit("u5", 9, 20, 1, 1, 3),
      Unit("u6", 9, 20, 2, 1, 3) }

\* the units of one list have different ids, as the Map of the aggregation
\* gives them
UnitLists ==
    {list \in SeqsUpTo(UnitPool, MaxUnits) :
        \A i, j \in 1..Len(list) : list[i].id = list[j].id => i = j}

\* defaultWeights
DefaultWeights == [sizeWeight |-> Q(1, 5), ageWeight |-> Q(2, 5), watchWeight |-> Q(2, 5)]

\* the options of the callers: weights of the configuration, no tunable set
CallerOptions ==
    [weights : {DefaultWeights,
                [sizeWeight |-> Q(1, 1), ageWeight |-> Q(0, 1), watchWeight |-> Q(0, 1)]},
     now : {ScoreNow},
     targetPlaysPerYear : {Q(1, 2)},
     saturationAgeYears : {Q(5, 1)},
     targetPlaysPerGb : {Q(1, 50)}]

\* any ScoreOptions: each tunable at its default, zero or negative
AnyOptions ==
    [weights : {DefaultWeights},
     now : {ScoreNow},
     targetPlaysPerYear : {Q(1, 2), Q(0, 1), Q(-1, 1)},
     saturationAgeYears : {Q(5, 1), Q(0, 1), Q(-1, 1)},
     targetPlaysPerGb : {Q(1, 50), Q(0, 1), Q(-1, 1)}]

\* Math.log10, for the arguments that occur (log10(2) to one decimal)
Log10(n) ==
    CASE n = 1 -> Q(0, 1)
      [] n = 2 -> Q(3, 10)
      [] n = 10 -> Q(1, 1)
      [] n = 100 -> Q(2, 1)
      [] n = 1000 -> Q(3, 1)
      [] n = 10000 -> Q(4, 1)

\* Math.max(...items.map((item) => item.sizeBytes), 1)
RECURSIVE MaxSize(_)
MaxSize(list) ==
    IF list = <<>> THEN 1
    ELSE LET rest == MaxSize(Tail(list))
         IN  IF Head(list).sizeBytes > rest THEN Head(list).sizeBytes ELSE rest

\* mutant: the share of the size, without the logarithm and the + 1 of it
NormalizeSize_Linear(size, maxSize) ==
    Clamp(Q(size, maxSize + 1), Q(0, 1), Q(1, 1))

\* normalizeSize
NormalizeSize(size, maxSize) ==
    LET adjustedSize == Log10(size + 1)
        adjustedMax == Log10(maxSize + 1)
    IN  IF adjustedMax = Q(0, 1) THEN Q(0, 1)
        ELSE Clamp(QDiv(adjustedSize, adjustedMax), Q(0, 1), Q(1, 1))

\* computePlaysPerYear
ComputePlaysPerYear(playCount, ageYears) ==
    QDiv(Q(playCount, 1), QMax(ageYears, Q(1, 4)))

\* computePlaysPerGb
ComputePlaysPerGb(playCount, sizeBytes) ==
    IF sizeBytes > 0 THEN QDiv(Q(playCount, 1), Q(sizeBytes, GIGABYTE))
    ELSE Q(0, 1)

\* mutant: the plays per year count for the unit, not against it
ComputeWatchScarcity_Popularity(playsPerYear, normalizedAge, targetPlaysPerYear, playsPerGb, targetPlaysPerGb, coverageRatio) ==
    LET playsPerYearScarcity ==
            Clamp(QDiv(playsPerYear, targetPlaysPerYear), Q(0, 1), Q(1, 1))
        playsPerGbScarcity ==
            Clamp(QSub(Q(1, 1), QDiv(playsPerGb, targetPlaysPerGb)), Q(0, 1), Q(1, 1))
        coverageScarcity == Clamp(QSub(Q(1, 1), coverageRatio), Q(0, 1), Q(1, 1))
        compositeScarcity ==
            QAdd(QAdd(QMul(playsPerYearScarcity, Q(1, 2)),
                      QMul(playsPerGbScarcity, Q(3, 10))),
                 QMul(coverageScarcity, Q(1, 5)))
        ageMultiplier == QAdd(Q(1, 2), QMul(normalizedAge, Q(1, 2)))
    IN  Clamp(QMul(compositeScarcity, ageMultiplier), Q(0, 1), Q(1, 1))

\* computeWatchScarcity
ComputeWatchScarcity(playsPerYear, normalizedAge, targetPlaysPerYear, playsPerGb, targetPlaysPerGb, coverageRatio) ==
    LET playsPerYearScarcity ==
            Clamp(QSub(Q(1, 1), QDiv(playsPerYear, targetPlaysPerYear)), Q(0, 1), Q(1, 1))
        playsPerGbScarcity ==
            Clamp(QSub(Q(1, 1), QDiv(playsPerGb, targetPlaysPerGb)), Q(0, 1), Q(1, 1))
        coverageScarcity == Clamp(QSub(Q(1, 1), coverageRatio), Q(0, 1), Q(1, 1))
        compositeScarcity ==
            QAdd(QAdd(QMul(playsPerYearScarcity, Q(1, 2)),
                      QMul(playsPerGbScarcity, Q(3, 10))),
                 QMul(coverageScarcity, Q(1, 5)))
        ageMultiplier == QAdd(Q(1, 2), QMul(normalizedAge, Q(1, 2)))
    IN  Clamp(QMul(compositeScarcity, ageMultiplier), Q(0, 1), Q(1, 1))

\* computeMetrics
ComputeMetrics(item, opts, maxSize) ==
    LET ageMs == opts.now - item.addedAt
        ageYears == QMax(Q(ageMs, YEAR_IN_MS), Q(0, 1))
        normalizedAge == Clamp(QDiv(ageYears, opts.saturationAgeYears), Q(0, 1), Q(1, 1))
        playsPerYear == ComputePlaysPerYear(item.totalPlayCount, ageYears)
        playsPerGb == ComputePlaysPerGb(item.totalPlayCount, item.sizeBytes)
        coverageRatio == IF item.itemCount = 0 THEN Q(0, 1)
                         ELSE Q(item.itemsWithPlays, item.itemCount)
    IN  [sizeScore |-> NormalizeSize(item.sizeBytes, maxSize),
         ageScore |-> normalizedAge,
         watchScarcityScore |->
             ComputeWatchScarcity(playsPerYear, normalizedAge, opts.targetPlaysPerYear,
                                  playsPerGb, opts.targetPlaysPerGb, coverageRatio),
         playsPerYear |-> playsPerYear, playsPerGb |-> playsPerGb,
         coverageRatio |-> coverageRatio, ageYears |-> ageYears]

\* the callback of items.map: the unit, its metrics and its score
ScoreOne(item, opts, maxSize) ==
    LET metrics == ComputeMetrics(item, opts, maxSize)
    IN  [item |-> item, metrics |-> metrics,
         score |-> QAdd(QAdd(QMul(metrics.sizeScore, opts.weights.sizeWeight),
                             QMul(metrics.ageScore, opts.weights.ageWeight)),
                        QMul(metrics.watchScarcityScore, opts.weights.watchWeight))]

\* mutant: ascending
Comparator_Ascending(a, b) == QSub(a.score, b.score)

\* (a, b) => b.score - a.score
Comparator(a, b) == QSub(b.score, a.score)

\* the comparator says a goes behind b
GoesBehind(a, b) == QLess(Q(0, 1), Comparator(a, b))

\* a stable sort, one element at a time: x goes behind the last element that
\* does not go behind x
InsertSorted(list, x) ==
    LET stay == {i \in 1..Len(list) : ~GoesBehind(list[i], x)}
        p == IF stay = {} THEN 0 ELSE CHOOSE i \in stay : \A j \in stay : j <= i
    IN  [i \in 1..(Len(list) + 1) |->
            IF i <= p THEN list[i] ELSE IF i = p + 1 THEN x ELSE list[i - 1]]

RECURSIVE StableSort(_, _)
StableSort(done, rest) ==
    IF rest = <<>> THEN done
    ELSE StableSort(InsertSorted(done, Head(rest)), Tail(rest))

\* Array.prototype.sort: stable under a consistent comparator; with a NaN
\* score the comparator is inconsistent and the order is left to the engine
SortOutcomes(list) ==
    IF \E i \in 1..Len(list) : list[i].score.t = "nan"
    THEN {[i \in 1..Len(list) |-> list[q[i]]] : q \in Permutations(1..Len(list))}
    ELSE {StableSort(<<>>, list)}

\* scoreMediaItems
ScoreMediaItems(list, opts) ==
    SortOutcomes([i \in 1..Len(list) |-> ScoreOne(list[i], opts, MaxSize(list))])

\* scoreMediaItems(items, options) is called and returns
Score ==
    /\ scorePc = "input"
    /\ scored' \in ScoreMediaItems(items, options)
    /\ scorePc' = "done"
    /\ UNCHANGED <<items, options, cacheVars, histVars, syncVars, aggVars, sideVars>>

\* another list of units is handed over
NextItems ==
    /\ scorePc = "done"
    /\ items' \in UnitLists
    /\ scored' = <<>>
    /\ scorePc' = "input"
    /\ UNCHANGED <<options, cacheVars, histVars, syncVars, aggVars, sideVars>>

\* all but the scoring at rest
ScoreOnly ==
    /\ store = [x \in {} |-> 0]
    /\ now = 0
    /\ capturedAt = [x \in {} |-> 0]
    /\ lastOp = NoOp
    /\ HistIdle
    /\ SyncIdle
    /\ AggIdle
    /\ SideIdle
    /\ items \in UnitLists
    /\ scored = <<>>
    /\ scorePc = "input"

ScoreInit == ScoreOnly /\ options \in CallerOptions

ScoreAnyInit == ScoreOnly /\ options \in AnyOptions

ScoreNext == Score \/ NextItems

\* scoreMediaItems as the program calls it
ScoreSpec == ScoreInit /\ [][ScoreNext]_vars

\* scoreMediaItems under any tunables
ScoreAnySpec == ScoreAnyInit /\ [][ScoreNext]_vars

----------------------------------------------------------------------------
(* Claims about scoreMediaItems *)

\* the positions of the result that hold the unit at position i of the input
ScoredAt(i) == {j \in 1..Len(scored) : scored[j].item = items[i]}

\* C19: the list returned holds the units handed over, each as often as it
\* was handed over, in order of descending score, and two units of equal score
\* are in the order in which they were handed over.
C19_SortedStable ==
    scorePc = "done" =>
        /\ Len(scored) = Len(items)
        /\ \A i \in 1..Len(items) :
              Cardinality(ScoredAt(i)) =
                 Cardinality({k \in 1..Len(items) : items[k] = items[i]})
        /\ \A j \in 1..Len(scored) :
              scored[j] = ScoreOne(scored[j].item, options, MaxSize(items))
        /\ \A j \in 1..(Len(scored) - 1) : ~QLess(scored[j].score, scored[j + 1].score)
        /\ \A a, b \in 1..Len(items) :
              (a < b /\ items[a] # items[b]
               /\ ScoreOne(items[a], options, MaxSize(items)).score =
                  ScoreOne(items[b], options, MaxSize(items)).score)
              => \A ja \in ScoredAt(a), jb \in ScoredAt(b) : ja < jb

\* u4 and u1 have the same score and u4 was handed over first; u2, handed
\* over before both, has a lower score and is last
C19_Witness ==
    /\ scorePc = "done"
    /\ Len(items) = 3
    /\ items[1].id = "u2"
    /\ items[2].id = "u4"
    /\ items[3].id = "u1"
    /\ scored[1].item.id = "u4"
    /\ scored[2].item.id = "u1"
    /\ scored[3].item.id = "u2"
    /\ scored[1].score = scored[2].score
    /\ QLess(scored[3].score, scored[2].score)

\* a metric is a number from 0 to 1
InUnitRange(x) == x.t = "num" /\ 0 <= x.n /\ x.n <= x.d

MetricsInRange ==
    \A j \in 1..Len(scored) :
        /\ InUnitRange(scored[j].metrics.watchScarcityScore)
        /\ InUnitRange(scored[j].metrics.sizeScore)
        /\ InUnitRange(scored[j].metrics.ageScore)

\* C20 as stated: under any tunables the three metrics of every scored unit
\* are numbers from 0 to 1.
C20_RangeAnyTunables == scorePc = "done" => MetricsInRange

\* the range of C20 where no tunable is zero: the three metrics of every
\* scored unit are numbers from 0 to 1 (no division of 0 by 0 happens).
C20_Range ==
    (/\ scorePc = "done"
     /\ options.targetPlaysPerYear # Q(0, 1)
     /\ options.saturationAgeYears # Q(0, 1)
     /\ options.targetPlaysPerGb # Q(0, 1)) => MetricsInRange

\* a unit added in the future, an old large one and a played one, scored
\* under a negative plays-per-year target
C20_Witness ==
    /\ scorePc = "done"
    /\ options.targetPlaysPerYear = Q(-1, 1)
    /\ options.saturationAgeYears = Q(5, 1)
    /\ options.targetPlaysPerGb = Q(1, 50)
    /\ {scored[j].item.id : j \in 1..Len(scored)} = {"u3", "u1", "u5"}
    /\ \E j \in 1..Len(scored) :
          /\ scored[j].item.id = "u5"
          /\ scored[j].metrics.sizeScore = Q(1, 3)
          /\ scored[j].metrics.ageScore = Q(1, 1)

----------------------------------------------------------------------------
\* the unit is at least saturationAgeYears old at options.now
Saturated(item) ==
    ~QLess(Q(options.now - item.addedAt, YEAR_IN_MS), options.saturationAgeYears)

\* C21: a unit of the largest size of its batch (at least 1 byte) has
\* sizeScore 1, a unit at least saturationAgeYears old has ageScore 1, and
\* such a unit without plays has a watchScarcityScore above 0.9.
C21_Scenario ==
    scorePc = "done" =>
        \A j \in 1..Len(scored) :
            LET item == scored[j].item
                metrics == scored[j].metrics
            IN  /\ (/\ item.sizeBytes >= 1
                    /\ \A k \in 1..Len(items) : items[k].sizeBytes <= item.sizeBytes)
                   => metrics.sizeScore = Q(1, 1)
                /\ Saturated(item) => metrics.ageScore = Q(1, 1)
                /\ (Saturated(item) /\ item.totalPlayCount = 0)
                   => /\ metrics.watchScarcityScore.t = "num"
                      /\ QLess(Q(9, 10), metrics.watchScarcityScore)

\* the large unit added ten years ago and never played, scored next to a
\* smaller and younger one
C21_Witness ==
    /\ scorePc = "done"
    /\ Len(scored) = 2
    /\ options.weights = DefaultWeights
    /\ {items[k].id : k \in 1..Len(items)} = {"u1", "u2"}
    /\ \E j \in 1..2 :
          /\ scored[j].item.id = "u1"
          /\ scored[j].item.sizeBytes = 999
          /\ scored[j].item.totalPlayCount = 0
          /\ Saturated(scored[j].item)
          /\ scored[j].metrics.sizeScore = Q(1, 1)
          /\ scored[j].metrics.ageScore = Q(1, 1)
          /\ scored[j].metrics.watchScarcityScore = Q(1, 1)

----------------------------------------------------------------------------
\* the items of the run that processItem has handled with the given end
HandledAs(result) ==
    CASE result = "skippedUnsupported" ->
            {h \in sLog.handled : h.media_type \notin {"movie", "episode"}}
      [] result = "skippedMissingFile" ->
            {h \in sLog.handled :
                /\ h.media_type \in {"movie", "episode"}
                /\ \/ h.path = NoPath
                   \/ h.path.root \in LibraryRoots /\ h.stat = "null"}
      [] result = "skippedDueToPath" ->
            {h \in sLog.handled :
                /\ h.media_type \in {"movie", "episode"}
                /\ h.path # NoPath
                /\ h.path.root \notin LibraryRoots}
      [] result = "imported" ->
            {h \in sLog.handled :
                /\ h.media_type \in {"movie", "episode"}
                /\ h.path # NoPath
                /\ h.path.root \in LibraryRoots
                /\ h.stat = "file"}

\* C22: every item handed to processItem ends in exactly one of imported,
\* skipped as unsupported, skipped as missing file (no path, failed lookup or
\* failed stat) and skipped as outside the allowlist; each counter is the
\* number of items that ended so, and the four add up to the items handled.
C22_Accounting ==
    /\ \A result \in {"imported", "skippedUnsupported", "skippedMissingFile",
                       "skippedDueToPath"} :
          sync.out[result] = Cardinality(HandledAs(result))
    /\ sync.out.processed = Cardinality(sLog.handled)
    /\ sync.out.processed =
          sync.out.imported + sync.out.skippedUnsupported
            + sync.out.skippedMissingFile + sync.out.skippedDueToPath

\* a finished run in which each of the four ends happened, the missing file
\* once for a path not found and once for a failed stat
C22_Witness ==
    /\ sync.status = "done"
    /\ sync.out.imported >= 1
    /\ sync.out.skippedUnsupported = 1
    /\ sync.out.skippedDueToPath >= 1
    /\ \E h \in sLog.handled : h.path = NoPath /\ h.media_type = "episode"
    /\ \E h \in sLog.handled : h.stat = "null"

----------------------------------------------------------------------------
\* an identifier is present when it is neither null nor empty
Present(id) == id \notin {NullKey, ""}

\* the first identifier of the row that is present: self, parent, grandparent
FirstPresent(row) ==
    IF Present(row.rating_key) THEN row.rating_key
    ELSE IF Present(row.parent_rating_key) THEN row.parent_rating_key
    ELSE row.grandparent_rating_key

\* C23: every row fetched is folded under the first of its own, its parent's
\* and its grandparent's identifier that is present (not null, not empty),
\* and only a row without any of them is dropped: the keys of the stats are
\* the first present identifiers of the rows.
C23_FoldPriority ==
    DOMAIN hStats = {FirstPresent(row) : row \in {r \in hLog.rows : Present(FirstPresent(r))}}

----------------------------------------------------------------------------
----------------------------------------------------------------------------
(* mapMediaItemToSource. Times are in milliseconds, the timestamps of the   *)
(* service in seconds.                                                      *)

\* the time of the run
MapNow == 5000

\* the items the service may send: added_at absent, 0, NaN, in the past and
\* in the future; play_count absent, 0, positive, negative and no number
MapItems ==
    [rating_key : {"m1"},
     added_at : {NullV, Num(0), NaNV, Num(3), Num(9)},
     play_count : {NullV, Num(0), Num(2), Num(-1), BadStr}]

\* what safeStat returns for a regular file: stats.size, stats.birthtimeMs
MapStats == [size : {0, 7}, birthtimeMs : {2000, 4000}]

\* fromUnixSeconds: null for null, 0 and NaN, else the date value * 1000 (the
\* invalid date, NaN, for a text that is no number)
FromUnixSeconds(value) ==
    IF IsNullish(value) \/ value.t \in {"nan", "empty"} THEN NullV
    ELSE IF ToNumber(value).t = "nan" THEN NaNV
    ELSE IF ToNumber(value).v = 0 /\ value.t = "num" THEN NullV
    ELSE Num(ToNumber(value).v * 1000)

\* Number(item.play_count ?? 0) || 0
SourcePlayCount(value) ==
    LET n == ToNumber(Coalesce(value, Num(0)))
    IN  IF n.t = "nan" THEN 0 ELSE n.v

\* mapMediaItemToSource: id, sizeBytes, addedAt and playCount of the source
MapMediaItemToSource(item, fileStats) ==
    [id |-> item.rating_key,
     sizeBytes |-> fileStats.size,
     addedAt |-> Coalesce(FromUnixSeconds(item.added_at), Num(fileStats.birthtimeMs)),
     playCount |-> SourcePlayCount(item.play_count)]

\* sources.push(mapMediaItemToSource(item, ..., fileStats))
MapItem ==
    /\ mapPc = "input"
    /\ mapped' = MapMediaItemToSource(mapItem, mapStat)
    /\ mapPc' = "done"
    /\ UNCHANGED <<mapItem, mapStat, purge, cacheVars, histVars, syncVars, aggVars, scoreVars>>

\* another item with a file reaches the end of processItem
NextMapItem ==
    /\ mapPc = "done"
    /\ mapItem' \in MapItems
    /\ mapStat' \in MapStats
    /\ mapPc' = "input"
    /\ UNCHANGED <<mapped, purge, cacheVars, histVars, syncVars, aggVars, scoreVars>>

MapInit ==
    /\ store = [x \in {} |-> 0]
    /\ now = 0
    /\ capturedAt = [x \in {} |-> 0]
    /\ lastOp = NoOp
    /\ HistIdle
    /\ SyncIdle
    /\ AggIdle
    /\ ScoreIdle
    /\ mapItem \in MapItems
    /\ mapStat \in MapStats
    /\ mapped = [id |-> "", sizeBytes |-> 0, addedAt |-> NullV, playCount |-> 0]
    /\ mapPc = "input"
    /\ PurgeIdle

MapNext == MapItem \/ NextMapItem

MapSpec == MapInit /\ [][MapNext]_vars

\* C25: every source emitted has a byte size of at least 0, a play count of
\* at least 0 and an added timestamp that is not after now, whatever the item
\* of the service carries.
C25_SourceInvariant ==
    mapPc = "done" =>
        /\ mapped.sizeBytes >= 0
        /\ mapped.playCount >= 0
        /\ mapped.addedAt.t = "num"
        /\ mapped.addedAt.v <= MapNow

----------------------------------------------------------------------------
\* the requests to the service that are awaited in this state
Outstanding ==
    (IF sync.pc = "libraries" THEN {Request("libraries", "", 0)} ELSE {})
    \cup (IF sync.pc = "library" /\ sync.lib <= Len(Libraries)
          THEN {Request("items", "", sync.lib)} ELSE {})
    \cup (IF sync.pc = "seasons" THEN {Request("seasons", fetch.show, 0)} ELSE {})
    \cup (IF sync.pc = "season" /\ fetch.seasons # <<>>
          THEN {Request("episodes", Head(fetch.seasons), 0)} ELSE {})
    \cup (IF sync.pc = "episode" /\ fetch.pending # <<>>
             /\ Head(fetch.pending).rating_key \notin DOMAIN memo
          THEN {Request("path", Head(fetch.pending).rating_key, 0)} ELSE {})
    \cup (IF hPc = "request" THEN {Request("page", fetch.show, hStart)} ELSE {})
    \cup (IF sync.pc = "process" /\ sync.queue # <<>>
             /\ IsSupportedMediaType(Head(sync.queue).media_type)
             /\ Head(sync.queue).file = NoPath
             /\ Head(sync.queue).rating_key \notin DOMAIN memo
          THEN {Request("path", Head(sync.queue).rating_key, 1)} ELSE {})

\* before place j of the trace, every season whose episodes were listed had
\* the path of each of its episodes looked up
SeasonsResolvedBefore(trace, j) ==
    \A i \in 1..(j - 1) :
        trace[i].e = "episodes" =>
            \A n \in 1..Len(EpisodesOf(trace[i].k)) :
                \E p \in (i + 1)..(j - 1) :
                    trace[p] = Event("path", EpisodesOf(trace[i].k)[n].rating_key)

\* C26: the requests of a run go out one after the other: at most one is
\* awaited at any time, and the episodes of a season are all resolved before
\* the next season is listed and before the history of the show is merged
\* and the list saved.
C26_Sequential ==
    /\ Cardinality(Outstanding) <= 1
    /\ \A j \in 1..Len(fetch.trace) :
          fetch.trace[j].e \in {"episodes", "history", "save"}
             => SeasonsResolvedBefore(fetch.trace, j)

\* the crawl of show s1 returns: two seasons listed, three paths looked up,
\* the history merged, the list saved
C26_Witness ==
    /\ sync.pc = "fetched"
    /\ sync.run = 1
    /\ fetch.show = "s1"
    /\ ~fetch.hit
    /\ Cardinality(EventsOf(fetch.trace, "episodes")) = 2
    /\ Cardinality(EventsOf(fetch.trace, "path")) = 3
    /\ Cardinality(EventsOf(fetch.trace, "history")) = 1
    /\ fetch.trace[Len(fetch.trace)] = Event("save", "s1")
    /\ Outstanding = {}

----------------------------------------------------------------------------
\* the step leaves the rows of the keys other than k as they are
OthersKept(k) ==
    \A x \in Keys \ {k} :
        /\ x \in DOMAIN store' <=> x \in DOMAIN store
        /\ x \in DOMAIN store => store'[x] = store[x]

\* C27: the store has one row per show key at most; a save leaves under its
\* key the row of its token, its time and its payload, in place of the row
\* the key had; save and load leave the rows of all other keys as they are; a
\* load that returns a list changes nothing; clear leaves no row.
C27_Frame ==
    [][/\ lastOp'.op = "save" =>
             /\ lastOp'.key \in DOMAIN store'
             /\ store'[lastOp'.key] =
                   [show_updated_at |-> lastOp'.token, fetched_at |-> lastOp'.at,
                    payload |-> lastOp'.arg]
             /\ OthersKept(lastOp'.key)
       /\ lastOp'.op = "load" =>
             /\ OthersKept(lastOp'.key)
             /\ lastOp'.result # Absent => store' = store
       /\ lastOp'.op = "clear" => DOMAIN store' = {}
       /\ DOMAIN store' \subseteq Keys]_vars

\* a save on key s1, which had a row, at a time when s2 still has the row it
\* had at the start
C27_Witness ==
    /\ lastOp.op = "save"
    /\ lastOp.key = "s1"
    /\ lastOp.hadRow
    /\ now > 0
    /\ DOMAIN store = {"s1", "s2"}
    /\ store["s1"].fetched_at = now
    /\ store["s1"].payload.kind = "array"
    /\ store["s2"].fetched_at = 0
    /\ store["s2"].payload \in CorruptPayloads

----------------------------------------------------------------------------
\* a crawl ended with an exception of a listing or of a path lookup
CrawlFailed == sync.status = "aborted" /\ sync.cause = "crawl"

\* C28: a crawl that fails at the season listing, at an episode listing or at
\* a path lookup saves nothing: the store has no row for the show, whatever
\* part of the list was built, and a fetch that finds no row for its show
\* misses and begins the crawl with the season listing.
C28_NoPartialList ==
    /\ [](CrawlFailed =>
            /\ ~fetch.hit
            /\ fetch.saved = Absent
            /\ EventsOf(fetch.trace, "save") = {}
            /\ fetch.show \notin DOMAIN store)
    /\ [][(fetch.show = "" /\ fetch'.show # "" /\ fetch'.show \notin DOMAIN store)
            => /\ ~fetch'.hit
               /\ sync'.pc = "seasons"
               /\ fetch'.episodes = <<>>
               /\ fetch'.trace = <<Event("load", fetch'.show)>>]_vars

\* the second run finds s1 updated, drops the row the first run saved, lists
\* the seasons and the episodes of the first season, and fails at a path
\* lookup with one episode built
C28_Witness ==
    /\ CrawlFailed
    /\ sync.run = 2
    /\ "s2" \in DOMAIN sLog.tokens
    /\ fetch.show = "s1"
    /\ fetch.updated = Num(3)
    /\ Len(fetch.episodes) = 1
    /\ fetch.trace[Len(fetch.trace)].e = "path"
    /\ "s1" \notin DOMAIN store

----------------------------------------------------------------------------
(* purgeMediaUnits *)

MAX_PURGE_CHOICES == 75

\* a scored unit, with the fields purgeMediaUnits reads
PurgeSource(filePath, sizeBytes) == [path |-> filePath, sizeBytes |-> sizeBytes]

PurgeUnit(id, kind, showKey, protected, sourceItems) ==
    [id |-> id, kind |-> kind, showKey |-> showKey,
     isProtectedSeason |-> protected, sourceItems |-> sourceItems]

\* the ranking of the library: a season whose first file holds two episodes,
\* a protected season, a movie, and a movie outside the root "lib"
RankedPool ==
    << PurgeUnit("t1", "season", "s1", FALSE,
                 <<PurgeSource(Path("lib", "b"), 2), PurgeSource(Path("lib", "b"), 2),
                   PurgeSource(Path("lib", "c"), 1)>>),
       PurgeUnit("t2", "season", "s1", TRUE, <<PurgeSource(Path("lib", "d"), 3)>>),
       PurgeUnit("m1", "movie", "", FALSE, <<PurgeSource(Path("lib", "a"), 5)>>),
       PurgeUnit("x1", "movie", "", FALSE, <<PurgeSource(Path("other", "f"), 4)>>) >>

\* config.libraryPaths: none, or the root "lib"
PurgeRoots == {{}, {"lib"}}

\* isPathAllowed(filePath, allowedRoots)
IsPathAllowedUnder(filePath, allowedRoots) ==
    allowedRoots = {} \/ filePath.root \in allowedRoots

\* what syncMediaUnits and scoreMediaItems hand over under the given roots:
\* nothing, or the ranked units of the files the sync's path filter let through
SyncResults(allowedRoots) ==
    { <<>>,
      SelectSeq(RankedPool,
                LAMBDA unit : \A n \in 1..Len(unit.sourceItems) :
                    IsPathAllowedUnder(unit.sourceItems[n].path, allowedRoots)) }

\* scored.slice(0, MAX_PURGE_CHOICES)
SelectableUnits(scoredUnits) ==
    SubSeq(scoredUnits, 1, IF Len(scoredUnits) < MAX_PURGE_CHOICES
                           THEN Len(scoredUnits) ELSE MAX_PURGE_CHOICES)

\* the values of the choices that are not disabled
EnabledChoices(selectable) ==
    {selectable[n].id : n \in {m \in 1..Len(selectable) : ~selectable[m].isProtectedSeason}}

\* selectableUnits.filter((unit) => selectedUnitIds.includes(unit.id))
SelectedUnits(selectable, selectedUnitIds) ==
    SelectSeq(selectable, LAMBDA unit : unit.id \in selectedUnitIds)

\* the source items of a list of units, in order
RECURSIVE SourceItemsOf(_)
SourceItemsOf(unitList) ==
    IF unitList = <<>> THEN <<>>
    ELSE Head(unitList).sourceItems \o SourceItemsOf(Tail(unitList))

\* the loop of collectDeletionCandidates without the Map of paths seen
RECURSIVE CollectAll(_, _)
CollectAll(sourceItems, allowedRoots) ==
    IF sourceItems = <<>> THEN <<>>
    ELSE LET source == Head(sourceItems)
             rest == CollectAll(Tail(sourceItems), allowedRoots)
         IN IF source.path = NoPath \/ ~IsPathAllowedUnder(source.path, allowedRoots)
            THEN rest
            ELSE <<source>> \o rest

CollectDeletionCandidates_Repeated(selectedUnits, allowedRoots) ==
    CollectAll(SourceItemsOf(selectedUnits), allowedRoots)

\* the loop of collectDeletionCandidates: unique is the Map built so far
RECURSIVE CollectUnique(_, _, _)
CollectUnique(sourceItems, allowedRoots, unique) ==
    IF sourceItems = <<>> THEN unique
    ELSE LET source == Head(sourceItems)
         IN CollectUnique(Tail(sourceItems), allowedRoots,
                IF source.path = NoPath \/ ~IsPathAllowedUnder(source.path, allowedRoots)
                THEN unique
                ELSE IF \E n \in 1..Len(unique) : unique[n].path = source.path
                THEN unique
                ELSE Append(unique, source))

\* collectDeletionCandidates
CollectDeletionCandidates(selectedUnits, allowedRoots) ==
    CollectUnique(SourceItemsOf(selectedUnits), allowedRoots, <<>>)

\* the characters an operator types, and String.prototype.toUpperCase on them
ToUpperCase(c) ==
    CASE c = "d" -> "D" [] c = "e" -> "E" [] c = "l" -> "L" [] c = "t" -> "T"
      [] c = "n" -> "N" [] c = "o" -> "O" [] OTHER -> c

\* String.prototype.trim on a sequence of characters
RECURSIVE TrimStart(_)
TrimStart(chars) ==
    IF chars # <<>> /\ Head(chars) = " " THEN TrimStart(Tail(chars)) ELSE chars

RECURSIVE TrimEnd(_)
TrimEnd(chars) ==
    IF chars # <<>> /\ chars[Len(chars)] = " "
    THEN TrimEnd(SubSeq(chars, 1, Len(chars) - 1)) ELSE chars

Trim(chars) == TrimEnd(TrimStart(chars))

DELETE == <<"D", "E", "L", "E", "T", "E">>

\* typedPhrase.trim().toUpperCase() === "DELETE"
PhraseConfirms(typedPhrase) ==
    LET trimmed == Trim(typedPhrase)
    IN [n \in 1..Len(trimmed) |-> ToUpperCase(trimmed[n])] = DELETE

\* what the operator may type at the confirmation prompt
TypedPhrases ==
    { DELETE,
      <<"d", "e", "l", "e", "t", "e">>,
      <<" ", "D", "e", "l", "e", "t", "e", " ">>,
      <<"D", "E", "L", "E", "T">>,
      <<"n", "o">>,
      <<>> }

\* the results of rm(candidate.path): removed, ENOENT, another error
RmResults == {"removed", "ENOENT", "EACCES"}

\* the results of one pass of the loops of applySonarrActions and
\* applyRadarrActions: unmonitor request made, no match, lookup failed
ArrResults == {"unmonitored", "nomatch", "failed"}

\* buildSonarrTargets: one target per show of the selected seasons whose
\* metadata carries external ids (found tells whether it does)
SonarrTargets(selectedUnits, found) ==
    LET shows == {selectedUnits[n].showKey :
                    n \in {m \in 1..Len(selectedUnits) : selectedUnits[m].kind = "season"}}
    IN IF found /\ "s1" \in shows THEN <<"s1">> ELSE <<>>

\* buildRadarrTargets: one target per selected movie whose metadata carries
\* external ids
RadarrTargets(selectedUnits, found) ==
    LET movies == SelectSeq(selectedUnits, LAMBDA unit : unit.kind = "movie" /\ found)
    IN [n \in 1..Len(movies) |-> movies[n].id]

PurgeEnd(outcome) == [purge EXCEPT !.pc = "done", !.outcome = outcome]

\* where purgeMediaUnits goes once the deletion loop has finished
AfterDeletion(p) ==
    IF p.sonarrTargets # <<>> /\ p.sonarr THEN [p EXCEPT !.pc = "sonarr", !.i = 1]
    ELSE IF p.radarrTargets # <<>> /\ p.radarr THEN [p EXCEPT !.pc = "radarr", !.i = 1]
    ELSE [p EXCEPT !.pc = "done", !.outcome = "purged"]

\* where purgeMediaUnits goes once applySonarrActions has returned
AfterSonarr(p) ==
    IF p.radarrTargets # <<>> /\ p.radarr THEN [p EXCEPT !.pc = "radarr", !.i = 1]
    ELSE [p EXCEPT !.pc = "done", !.outcome = "purged"]

PurgeOthersUnchanged ==
    UNCHANGED <<cacheVars, histVars, syncVars, aggVars, scoreVars, mapVars>>

\* purgeMediaUnits up to the selection prompt: the configuration test, the
\* sync, the scoring and the choices
PurgeSync(scoredUnits) ==
    /\ purge.pc = "start"
    /\ purge' =
        IF ~purge.tautulli THEN PurgeEnd("unconfigured")
        ELSE IF scoredUnits = <<>> THEN PurgeEnd("nothing")
        ELSE IF SelectableUnits(scoredUnits) = <<>> THEN PurgeEnd("nochoice")
        ELSE [purge EXCEPT !.pc = "select", !.units = SelectableUnits(scoredUnits)]
    /\ PurgeOthersUnchanged

\* the selection prompt returns; the candidates are collected and the
\* Sonarr and Radarr targets built
PurgeSelect(selectedUnitIds, found) ==
    /\ purge.pc = "select"
    /\ LET selectedUnits == SelectedUnits(purge.units, selectedUnitIds)
           candidates == CollectDeletionCandidates(selectedUnits, purge.roots)
       IN purge' =
            IF selectedUnitIds = {} THEN PurgeEnd("unselected")
            ELSE IF candidates = <<>>
            THEN [PurgeEnd("outside") EXCEPT !.selected = selectedUnitIds]
            ELSE [purge EXCEPT
                    !.pc = "confirm",
                    !.selected = selectedUnitIds,
                    !.candidates = candidates,
                    !.sonarrTargets =
                        IF purge.sonarr THEN SonarrTargets(selectedUnits, found) ELSE <<>>,
                    !.radarrTargets =
                        IF purge.radarr THEN RadarrTargets(selectedUnits, found) ELSE <<>>]
    /\ PurgeOthersUnchanged

\* the confirmation prompt returns
PurgeConfirm(typedPhrase) ==
    /\ purge.pc = "confirm"
    /\ purge' =
        IF ~PhraseConfirms(typedPhrase)
        THEN [PurgeEnd("cancelled") EXCEPT !.typedPhrase = typedPhrase]
        ELSE [purge EXCEPT !.pc = "deleting", !.typedPhrase = typedPhrase, !.i = 1]
    /\ PurgeOthersUnchanged

\* promptOrExit: the operator leaves a prompt and the process exits
PromptExit ==
    /\ purge.pc \in {"select", "confirm"}
    /\ purge' = PurgeEnd("exit")
    /\ PurgeOthersUnchanged

\* one pass of the deletion loop; after the last one purgeMediaUnits goes on
\* to the unmonitor requests
PurgeRm(result) ==
    /\ purge.pc = "deleting"
    /\ purge.i <= Len(purge.candidates)
    /\ LET candidate == purge.candidates[purge.i]
           after == [purge EXCEPT
                        !.i = @ + 1,
                        !.deleted = IF result = "removed" THEN @ + 1 ELSE @,
                        !.failures = IF result = "EACCES"
                                     THEN Append(@, candidate.path) ELSE @,
                        !.log = Append(@, [e |-> "rm", k |-> candidate.path,
                                           result |-> result])]
       IN purge' = IF purge.i = Len(purge.candidates) THEN AfterDeletion(after)
                   ELSE after
    /\ PurgeOthersUnchanged

\* one pass of the loop of applySonarrActions
SonarrStep(result) ==
    /\ purge.pc = "sonarr"
    /\ purge.i <= Len(purge.sonarrTargets)
    /\ LET after == [purge EXCEPT
                        !.i = @ + 1,
                        !.log = IF result = "unmonitored"
                                THEN Append(@, [e |-> "unmonitorSeasons",
                                                k |-> purge.sonarrTargets[purge.i],
                                                result |-> result])
                                ELSE @]
       IN purge' = IF purge.i = Len(purge.sonarrTargets) THEN AfterSonarr(after)
                   ELSE after
    /\ PurgeOthersUnchanged

\* one pass of the loop of applyRadarrActions
RadarrStep(result) ==
    /\ purge.pc = "radarr"
    /\ purge.i <= Len(purge.radarrTargets)
    /\ LET after == [purge EXCEPT
                        !.i = @ + 1,
                        !.log = IF result = "unmonitored"
                                THEN Append(@, [e |-> "unmonitorMovie",
                                                k |-> purge.radarrTargets[purge.i],
                                                result |-> result])
                                ELSE @]
       IN purge' = IF purge.i = Len(purge.radarrTargets)
                   THEN [after EXCEPT !.pc = "done", !.outcome = "purged"]
                   ELSE after
    /\ PurgeOthersUnchanged

PurgeInit ==
    /\ store = [x \in {} |-> 0]
    /\ now = 0
    /\ capturedAt = [x \in {} |-> 0]
    /\ lastOp = NoOp
    /\ HistIdle
    /\ SyncIdle
    /\ AggIdle
    /\ ScoreIdle
    /\ MapIdle
    /\ \E tautulli \in BOOLEAN, sonarr \in BOOLEAN, radarr \in BOOLEAN, roots \in PurgeRoots :
        purge = [NoPurge EXCEPT !.pc = "start", !.tautulli = tautulli,
                                !.sonarr = sonarr, !.radarr = radarr, !.roots = roots]

PurgeNext ==
    \/ \E scoredUnits \in SyncResults(purge.roots) : PurgeSync(scoredUnits)
    \/ \E selectedUnitIds \in SUBSET EnabledChoices(purge.units), found \in BOOLEAN :
        PurgeSelect(selectedUnitIds, found)
    \/ \E typedPhrase \in TypedPhrases : PurgeConfirm(typedPhrase)
    \/ PromptExit
    \/ \E result \in RmResults : PurgeRm(result)
    \/ \E result \in ArrResults : SonarrStep(result)
    \/ \E result \in ArrResults : RadarrStep(result)

PurgeSpec == PurgeInit /\ [][PurgeNext]_vars

\* the positions of the log that are removals, and those that are unmonitor requests
RmCalls == EventsOf(purge.log, "rm")

UnmonitorCalls ==
    EventsOf(purge.log, "unmonitorSeasons") \cup EventsOf(purge.log, "unmonitorMovie")

\* the paths of the source items of the units selected
SelectedPaths ==
    UNION { {purge.units[n].sourceItems[m].path : m \in 1..Len(purge.units[n].sourceItems)} :
            n \in {u \in 1..Len(purge.units) : purge.units[u].id \in purge.selected} }

----------------------------------------------------------------------------
(* plays and watch scarcity *)

\* further plays a unit may have had
MaxMorePlays == 2

\* a is at most b
QAtMost(a, b) == a = b \/ QLess(a, b)

\* two units that differ in their plays at most
SameButPlays(a, b) ==
    /\ a.sizeBytes = b.sizeBytes
    /\ a.addedAt = b.addedAt
    /\ a.itemCount = b.itemCount
    /\ a.itemsWithPlays = b.itemsWithPlays

\* the row scoreMediaItems would give the unit of a row of the list had the
\* unit more plays: the largest size of the list is the same
WithMorePlays(row, more) ==
    ScoreOne([row.item EXCEPT !.totalPlayCount = @ + more], options,
             MaxSize([k \in 1..Len(scored) |-> scored[k].item]))

\* C30: under the tunables of the callers (all positive) and a watch weight
\* that is not negative, of two units of one list with the same size, added
\* timestamp, item count and items with plays, the one with more plays has a
\* watch scarcity score and a score that are not higher; and every unit of
\* the list would have scores not higher than its own with more plays.
C30_PlaysNeverRaise ==
    scorePc = "done" =>
        /\ \A i, j \in 1..Len(scored) :
            (/\ SameButPlays(scored[i].item, scored[j].item)
             /\ scored[i].item.totalPlayCount > scored[j].item.totalPlayCount)
            => /\ QAtMost(scored[i].metrics.watchScarcityScore,
                          scored[j].metrics.watchScarcityScore)
               /\ QAtMost(scored[i].score, scored[j].score)
        /\ \A i \in 1..Len(scored), more \in 1..MaxMorePlays :
            /\ QAtMost(WithMorePlays(scored[i], more).metrics.watchScarcityScore,
                       scored[i].metrics.watchScarcityScore)
            /\ QAtMost(WithMorePlays(scored[i], more).score, scored[i].score)

\* the small unit played once and its twin played twice are scored in one
\* list under the default weights: the twin's watch scarcity is 7/30 against
\* 13/30, and its score is lower
C30_Witness ==
    /\ scorePc = "done"
    /\ options.weights = DefaultWeights
    /\ Len(scored) = 3
    /\ \E i, j \in 1..3 :
        /\ scored[i].item.id = "u6"
        /\ scored[j].item.id = "u5"
        /\ scored[i].item.totalPlayCount = 2
        /\ scored[j].item.totalPlayCount = 1
        /\ SameButPlays(scored[i].item, scored[j].item)
        /\ scored[i].metrics.watchScarcityScore = Q(7, 30)
        /\ scored[j].metrics.watchScarcityScore = Q(13, 30)
        /\ QLess(scored[i].score, scored[j].score)

====
